---- MODULE Spec2Model ----
(***************************************************************************)
(* A model of the AnyBURL replication: the indexed knowledge graph, the    *)
(* bottom-rule sampler, the generalizer, the confidence estimator and the  *)
(* anytime learning loop.                                                  *)
(*                                                                         *)
(* Python dicts are functions whose DOMAIN is the dict's key set; a       *)
(* defaultdict is such a function together with the operator that inserts  *)
(* the default on a read of a missing key.  Random choices are choices    *)
(* over every value random.choice / random.random can deliver.            *)
(***************************************************************************)
EXTENDS Integers, Sequences, FiniteSets, TLC

(***************************************************************************)
(* Input universe.                                                          *)
(***************************************************************************)
Entities == {"a", "b", "c"}
Relations == {"r", "q"}

\* The (subject, relation, object) tuples a graph is built from.
PoolList ==
    << <<"a", "r", "b">>, <<"b", "q", "c">>, <<"c", "r", "a">>, <<"a", "r", "a">> >>

TriplePool == { PoolList[i] : i \in 1..Len(PoolList) }

MaxTriples == 3
MaxCalls == 2

RECURSIVE SeqsUpTo(_, _)
SeqsUpTo(S, k) ==
    IF k = 0 THEN { <<>> }
    ELSE LET shorter == SeqsUpTo(S, k - 1)
         IN  shorter \cup { Append(q, x) : q \in { p \in shorter : Len(p) = k - 1 }, x \in S }

Inputs == SeqsUpTo(TriplePool, MaxTriples)

(***************************************************************************)
(* Python containers.                                                       *)
(***************************************************************************)
EmptyDict == [k \in {} |-> {}]

DictSet(d, k, v) == [x \in DOMAIN d \cup {k} |-> IF x = k THEN v ELSE d[x]]

DictGet(d, k, default) == IF k \in DOMAIN d THEN d[k] ELSE default

\* dict.setdefault-like read of a defaultdict: the dict after d[k] was read.
DefaultRead(d, k, default) == IF k \in DOMAIN d THEN d ELSE DictSet(d, k, default)

SeqToSet(q) == { q[i] : i \in 1..Len(q) }

(***************************************************************************)
(* Triple (algorithm/knowledge_graph/Triple.py).                            *)
(***************************************************************************)
Triple(s, r, o, rev) == [subject |-> s, relation |-> r, object |-> o, reversed |-> rev]

from_tuple(t) == Triple(t[1], t[2], t[3], FALSE)

flipped(t) == Triple(t.object, t.relation, t.subject, ~t.reversed)

\* tuple(triple): __iter__ yields subject, relation, object.
as_tuple(t) == <<t.subject, t.relation, t.object>>

\* The fields with compare=True, which the generated __eq__ and __hash__ of
\* the dataclass compare and hash as a tuple.
Triple_compare_fields(t) == <<t.subject, t.relation, t.object>>

\* Triple.__eq__
Triple_eq(x, y) == Triple_compare_fields(x) = Triple_compare_fields(y)

\* Triple.__hash__: the hash of the tuple of compared fields, stood for by
\* the tuple.
Triple_hash(t) == Triple_compare_fields(t)

(***************************************************************************)
(* Triple of the temporal extension (extension/knowledge_graph/Triple.py). *)
(* A timestamp is <<>> for None and <<x>> for the number x.                 *)
(***************************************************************************)
TemporalTriple(s, r, o, timestamp, rev) ==
    [subject |-> s, relation |-> r, object |-> o, timestamp |-> timestamp,
     reversed |-> rev]

TemporalTriple_flipped(t) ==
    TemporalTriple(t.object, t.relation, t.subject, t.timestamp, ~t.reversed)

\* timestamp is declared without compare=False.
TemporalTriple_compare_fields(t) == <<t.subject, t.relation, t.object, t.timestamp>>

TemporalTriple_eq(x, y) ==
    TemporalTriple_compare_fields(x) = TemporalTriple_compare_fields(y)

TemporalTriple_hash(t) == TemporalTriple_compare_fields(t)

(***************************************************************************)
(* KnowledgeGraph (algorithm/knowledge_graph/KnowledgeGraph.py).            *)
(***************************************************************************)
EmptyKG ==
    [ triples   |-> <<>>,
      outgoing  |-> EmptyDict,
      incoming  |-> EmptyDict,
      adj       |-> EmptyDict,
      adj_inv   |-> EmptyDict,
      relations |-> {},
      entities  |-> {} ]

\* adj[r][s].add(o) on a defaultdict(lambda: defaultdict(set)).
AdjAdd(adj, r, s, o) ==
    LET inner == DictGet(adj, r, EmptyDict)
    IN  DictSet(adj, r, DictSet(inner, s, DictGet(inner, s, {}) \cup {o}))

\* outgoing[s].append((r, o)) on a defaultdict(list).
ListAppend(d, k, v) == DictSet(d, k, Append(DictGet(d, k, <<>>), v))

\* KG_add with incoming[o] given (r, o) where the code appends (r, s).
KG_add_incoming_object(g, tup) ==
    LET triple == from_tuple(tup)
        s == triple.subject
        r == triple.relation
        o == triple.object
    IN  [ triples   |-> Append(g.triples, triple),
          outgoing  |-> ListAppend(g.outgoing, s, <<r, o>>),
          incoming  |-> ListAppend(g.incoming, o, <<r, o>>),
          adj       |-> AdjAdd(g.adj, r, s, o),
          adj_inv   |-> AdjAdd(g.adj_inv, r, o, s),
          relations |-> g.relations \cup {r},
          entities  |-> g.entities \cup {s, o} ]

\* One pass of the constructor's loop body.
KG_add(g, tup) ==
    LET triple == from_tuple(tup)
        s == triple.subject
        r == triple.relation
        o == triple.object
    IN  [ triples   |-> Append(g.triples, triple),
          outgoing  |-> ListAppend(g.outgoing, s, <<r, o>>),
          incoming  |-> ListAppend(g.incoming, o, <<r, s>>),
          adj       |-> AdjAdd(g.adj, r, s, o),
          adj_inv   |-> AdjAdd(g.adj_inv, r, o, s),
          relations |-> g.relations \cup {r},
          entities  |-> g.entities \cup {s, o} ]

RECURSIVE KG_fold(_, _, _)
KG_fold(g, tuples, i) ==
    IF i > Len(tuples) THEN g ELSE KG_fold(KG_add(g, tuples[i]), tuples, i + 1)

\* KnowledgeGraph(triples).  relations and entities end as list(set(...)),
\* whose order is unspecified: they stay sets here.
KnowledgeGraph_init(tuples) == KG_fold(EmptyKG, tuples, 1)

\* The adjacency after `self.adj[r][s]` was evaluated: both defaultdict
\* levels insert their default for a missing key.
AdjRead(adj, r, s) ==
    LET outer == DefaultRead(adj, r, EmptyDict)
    IN  DictSet(outer, r, DefaultRead(outer[r], s, {}))

\* has_fact looking the subject up among the neighbours of the object.
has_fact_swapped(adj, s, r, o) ==
    LET after == AdjRead(adj, r, o)
    IN  [ret |-> s \in after[r][o], adj |-> after]

\* has_fact(s, r, o): `o in self.adj[r][s]`; its value and the adj it leaves.
has_fact(adj, s, r, o) ==
    LET after == AdjRead(adj, r, s)
    IN  [ret |-> o \in after[r][s], adj |-> after]

(***************************************************************************)
(* BottomRule (algorithm/path_sampling/BottomRule.py).                      *)
(***************************************************************************)
\* BottomRule(head, start_from): __post_init__ puts the two head nodes in
\* visited; body and steps start empty, is_cyclical false.
BottomRule(head, start_from) ==
    [ head        |-> head,
      start_from  |-> start_from,
      body        |-> <<>>,
      steps       |-> <<>>,
      is_cyclical |-> FALSE,
      visited     |-> {head.subject, head.object} ]

add_triple(B, triple, step) ==
    [B EXCEPT !.body = Append(@, triple), !.steps = Append(@, step)]

(***************************************************************************)
(* Sampler (replication/path_sampling/sampling.py).                         *)
(***************************************************************************)
Directions == {"both", "forward-only", "backward-only", "sideways"}

MaxN == 3

\* The values pick_step_direction can return; "ValueError" stands for the
\* raise on an unsupported direction_allowed.
pick_step_direction(direction_allowed) ==
    IF direction_allowed = "both" THEN {"forward", "backward"}
    ELSE IF direction_allowed = "forward-only" THEN {"forward"}
    ELSE IF direction_allowed = "backward-only" THEN {"backward"}
    ELSE {"ValueError"}

get_possible_moves(g, current_node, step_direction) ==
    IF step_direction = "forward"
    THEN LET out == DictGet(g.outgoing, current_node, <<>>)
         IN  [i \in 1..Len(out) |-> from_tuple(<<current_node, out[i][1], out[i][2]>>)]
    ELSE LET inc == DictGet(g.incoming, current_node, <<>>)
         IN  [i \in 1..Len(inc) |-> from_tuple(<<inc[i][2], inc[i][1], current_node>>)]

\* The node a move leads to: its object going forward, its subject going
\* backward.
FarNode(move, step_direction) ==
    IF step_direction = "forward" THEN move.object ELSE move.subject

\* The head endpoint the walk did not start from.
OppositeEnd(B) ==
    IF B.start_from = "subject" THEN B.head.object ELSE B.head.subject

\* filter_valid_moves that lets any move through on the last step.
filter_valid_moves_any_last(B, possible_moves, step_direction, is_last_step) ==
    LET keep(move) ==
            LET far == FarNode(move, step_direction)
            IN  IF far \in B.visited THEN is_last_step ELSE TRUE
    IN  SelectSeq(possible_moves, keep)

\* filter_valid_moves that never lets a visited node through.
filter_valid_moves_unvisited_only(B, possible_moves, step_direction, is_last_step) ==
    LET keep(move) == FarNode(move, step_direction) \notin B.visited
    IN  SelectSeq(possible_moves, keep)

filter_valid_moves(B, possible_moves, step_direction, is_last_step) ==
    LET keep(move) ==
            LET far == FarNode(move, step_direction)
            IN  IF far \in B.visited
                THEN /\ is_last_step
                     /\ \/ B.start_from = "subject" /\ far = B.head.object
                        \/ B.start_from = "object" /\ far = B.head.subject
                ELSE TRUE
    IN  SelectSeq(possible_moves, keep)

NoneResult == [kind |-> "None"]

\* None returned from the walk; the record keeps the walk so far, the node it
\* stands on and the direction picked for the step that failed.
NoneAt(B, current_node, step_direction) ==
    [kind |-> "None", rule |-> B, current_node |-> current_node,
     step_direction |-> step_direction]
ErrorResult(e) == [kind |-> e]
RuleResult(B, current_node) ==
    [kind |-> "BottomRule", rule |-> B, current_node |-> current_node]

\* Step 4 testing the walk's end against head.subject only.
SetCyclical_subject_only(B, current_node) ==
    IF current_node = B.head.subject
    THEN [B EXCEPT !.is_cyclical = TRUE]
    ELSE B

\* Step 4 of sample_bottom_rule: the flag set after the walk.
SetCyclical(B, current_node) ==
    IF current_node = B.head.object \/ current_node = B.head.subject
    THEN [B EXCEPT !.is_cyclical = TRUE]
    ELSE B

\* The loop `for step_id in range(n - 1)` from step_id on, as the set of
\* everything the call can return.
RECURSIVE Walk(_, _, _, _, _, _)
Walk(g, B, current_node, step_id, n, direction_allowed) ==
    IF step_id >= n - 1
    THEN { RuleResult(SetCyclical(B, current_node), current_node) }
    ELSE UNION {
        IF step_direction = "ValueError" THEN { ErrorResult("ValueError") }
        ELSE LET possible_moves == get_possible_moves(g, current_node, step_direction)
                 is_last_step == (step_id = n - 2)
                 filtered_moves ==
                     filter_valid_moves(B, possible_moves, step_direction, is_last_step)
             IN  IF possible_moves = <<>>
                 THEN { NoneAt(B, current_node, step_direction) }
                 ELSE IF filtered_moves = <<>>
                 THEN { NoneAt(B, current_node, step_direction) }
                 ELSE UNION {
                     LET triple == filtered_moves[i]
                         far == FarNode(triple, step_direction)
                         B2 == [add_triple(B, triple, step_direction)
                                  EXCEPT !.visited = @ \cup {far}]
                     IN  Walk(g, B2, far, step_id + 1, n, direction_allowed)
                     : i \in 1..Len(filtered_moves) }
        : step_direction \in pick_step_direction(direction_allowed) }

\* sample_bottom_rule(kg, n, direction_allowed): every value it can return
\* (or error it can raise) over the random choices it makes.
sample_bottom_rule(g, n, direction_allowed) ==
    IF n < 1 THEN { ErrorResult("ValueError") }
    ELSE IF g.triples = <<>> THEN { ErrorResult("IndexError") }
    ELSE UNION {
        UNION {
            LET head_triple == g.triples[h]
                start_from ==
                    IF initial_start_node = head_triple.subject
                    THEN "subject" ELSE "object"
                B == BottomRule(head_triple, start_from)
            IN  IF n = 1 THEN { RuleResult(B, initial_start_node) }
                ELSE Walk(g, B, initial_start_node, 0, n, direction_allowed)
            : initial_start_node \in {g.triples[h].subject, g.triples[h].object} }
        : h \in 1..Len(g.triples) }

(***************************************************************************)
(* Temporal extension: graph (extension/knowledge_graph/KnowledgeGraph.py) *)
(* and sampler (extension/path_sampling/sampling.py).  A graph is built    *)
(* from (s, r, o, t) and (s, r, o) tuples; a temporal_window is <<>> for   *)
(* None and <<w>> for the number w.                                         *)
(***************************************************************************)
\* Triple.from_tuple(triple_tuple) of the extension, timestamp defaulted.
TemporalTriple_from_tuple(t) ==
    IF Len(t) = 4
    THEN TemporalTriple(t[1], t[2], t[3], <<t[4]>>, FALSE)
    ELSE TemporalTriple(t[1], t[2], t[3], <<>>, FALSE)

\* One pass of the loop body of the extension's constructor.
TemporalKG_add(g, tup) ==
    LET triple == TemporalTriple_from_tuple(tup)
        s == triple.subject
        r == triple.relation
        o == triple.object
        timed == triple.timestamp # <<>>
        t == triple.timestamp[1]
    IN  [ triples         |-> Append(g.triples, triple),
          outgoing        |-> ListAppend(g.outgoing, s, <<r, o>>),
          incoming        |-> ListAppend(g.incoming, o, <<r, s>>),
          adj             |-> AdjAdd(g.adj, r, s, o),
          adj_inv         |-> AdjAdd(g.adj_inv, r, o, s),
          time_index      |-> IF timed THEN ListAppend(g.time_index, t, triple)
                              ELSE g.time_index,
          adj_by_time     |-> IF timed
                              THEN DictSet(g.adj_by_time, t,
                                     AdjAdd(DictGet(g.adj_by_time, t, EmptyDict), r, s, o))
                              ELSE g.adj_by_time,
          adj_inv_by_time |-> IF timed
                              THEN DictSet(g.adj_inv_by_time, t,
                                     AdjAdd(DictGet(g.adj_inv_by_time, t, EmptyDict), r, o, s))
                              ELSE g.adj_inv_by_time,
          relations       |-> g.relations \cup {r},
          entities        |-> g.entities \cup {s, o} ]

RECURSIVE TemporalKG_fold(_, _, _)
TemporalKG_fold(g, tuples, i) ==
    IF i > Len(tuples) THEN g
    ELSE TemporalKG_fold(TemporalKG_add(g, tuples[i]), tuples, i + 1)

TemporalKnowledgeGraph_init(tuples) ==
    TemporalKG_fold(
    [ triples         |-> <<>>,
      outgoing        |-> EmptyDict,
      incoming        |-> EmptyDict,
      adj             |-> EmptyDict,
      adj_inv         |-> EmptyDict,
      time_index      |-> EmptyDict,
      adj_by_time     |-> EmptyDict,
      adj_inv_by_time |-> EmptyDict,
      relations       |-> {},
      entities        |-> {} ],
      tuples, 1)

\* get_possible_moves of the extension: the moves are built from the
\* (r, o) and (r, s) pairs of outgoing and incoming, as three-tuples.
get_possible_moves_temporal(g, current_node, step_direction) ==
    IF step_direction = "forward"
    THEN LET out == DictGet(g.outgoing, current_node, <<>>)
         IN  [i \in 1..Len(out) |->
                TemporalTriple_from_tuple(<<current_node, out[i][1], out[i][2]>>)]
    ELSE LET inc == DictGet(g.incoming, current_node, <<>>)
         IN  [i \in 1..Len(inc) |->
                TemporalTriple_from_tuple(<<inc[i][2], inc[i][1], current_node>>)]

\* The extension's BottomRule: the first sampled edge's timestamp starts the
\* current time.
TemporalBottomRule(head, start_from) ==
    [ head         |-> head,
      start_from   |-> start_from,
      body         |-> <<>>,
      steps        |-> <<>>,
      is_cyclical  |-> FALSE,
      visited      |-> {head.subject, head.object},
      current_time |-> head.timestamp ]

\* add_triple of the extension's BottomRule: an edge with a timestamp moves
\* the current time to it.
add_triple_temporal(B, triple, step) ==
    [B EXCEPT !.body = Append(@, triple), !.steps = Append(@, step),
              !.current_time = IF triple.timestamp # <<>> THEN triple.timestamp ELSE @]

\* The loop `for step_id in range(n - 1)` of the extension from step_id on.
\* filter_valid_moves is the same code in both samplers.
RECURSIVE TemporalWalk(_, _, _, _, _, _, _)
TemporalWalk(g, B, current_node, step_id, n, direction_allowed, temporal_window) ==
    IF step_id >= n - 1
    THEN { RuleResult(SetCyclical(B, current_node), current_node) }
    ELSE UNION {
        IF step_direction = "ValueError" THEN { ErrorResult("ValueError") }
        ELSE LET possible_moves ==
                     get_possible_moves_temporal(g, current_node, step_direction)
                 is_last_step == (step_id = n - 2)
                 filtered_moves ==
                     filter_valid_moves(B, possible_moves, step_direction, is_last_step)
                 \* "Temporal filtering": the moves the loop drops.
                 dropped(move) ==
                     /\ B.current_time # <<>>
                     /\ move.timestamp # <<>>
                     /\ \/ move.timestamp[1] < B.current_time[1]
                        \/ /\ temporal_window # <<>>
                           /\ move.timestamp[1] - B.current_time[1] > temporal_window[1]
                 keep(move) == ~dropped(move)
                 valid_moves == SelectSeq(filtered_moves, keep)
             IN  IF possible_moves = <<>> \/ filtered_moves = <<>> \/ valid_moves = <<>>
                 THEN { NoneAt(B, current_node, step_direction) }
                 ELSE UNION {
                     LET triple == valid_moves[i]
                         far == FarNode(triple, step_direction)
                         B2 == [add_triple_temporal(B, triple, step_direction)
                                  EXCEPT !.visited = @ \cup {far}]
                     IN  TemporalWalk(g, B2, far, step_id + 1, n, direction_allowed,
                                      temporal_window)
                     : i \in 1..Len(valid_moves) }
        : step_direction \in pick_step_direction(direction_allowed) }

\* sample_bottom_rule(kg, n, direction_allowed, temporal_window) of the
\* extension: every value it can return or error it can raise.
sample_bottom_rule_temporal(g, n, direction_allowed, temporal_window) ==
    LET timed(t) == t.timestamp # <<>>
        valid_head_triples ==
            IF temporal_window # <<>> THEN SelectSeq(g.triples, timed) ELSE g.triples
    IN  IF n < 1 THEN { ErrorResult("ValueError") }
        ELSE IF valid_head_triples = <<>>
        THEN IF temporal_window # <<>> THEN { NoneResult }
             ELSE { ErrorResult("IndexError") }
        ELSE UNION {
            UNION {
                LET head_triple == valid_head_triples[h]
                    start_from ==
                        IF initial_start_node = head_triple.subject
                        THEN "subject" ELSE "object"
                    B == TemporalBottomRule(head_triple, start_from)
                IN  IF n = 1 THEN { RuleResult(B, initial_start_node) }
                    ELSE TemporalWalk(g, B, initial_start_node, 0, n,
                                      direction_allowed, temporal_window)
                : initial_start_node \in {valid_head_triples[h].subject,
                                          valid_head_triples[h].object} }
            : h \in 1..Len(valid_head_triples) }

(***************************************************************************)
(* Chained view (algorithm/path_sampling/BottomRule.py).                    *)
(***************************************************************************)
\* A chained view that keeps every body triple as stored, where the code
\* flips the triples of backward steps.
get_chained_as_stored(B) ==
    [ head |-> IF B.start_from = "object"
               THEN as_tuple(B.head) ELSE as_tuple(flipped(B.head)),
      body |-> [i \in 1..Len(B.body) |-> as_tuple(B.body[i])] ]

\* get_chained: the head and the body as (first, relation, second) tuples.
get_chained(B) ==
    [ head |-> IF B.start_from = "object"
               THEN as_tuple(B.head) ELSE as_tuple(flipped(B.head)),
      body |-> [i \in 1..Len(B.body) |->
                  IF B.steps[i] = "forward"
                  THEN as_tuple(B.body[i]) ELSE as_tuple(flipped(B.body[i]))] ]

RECURSIVE FlattenBody(_, _)
FlattenBody(chained_body, i) ==
    IF i > Len(chained_body) THEN <<>>
    ELSE <<chained_body[i][1], chained_body[i][3]>> \o FlattenBody(chained_body, i + 1)

get_flattened_nodes(B) ==
    LET chained == get_chained(B)
    IN  <<chained.head[1], chained.head[3]>> \o FlattenBody(chained.body, 1)

(***************************************************************************)
(* GeneralizedRule (replication/rule_generalization/                        *)
(* GeneralizedRule_withConf.py).                                            *)
(***************************************************************************)
\* The keys of dict.fromkeys(nodes), in insertion order.
RECURSIVE DictKeysInOrder(_, _, _)
DictKeysInOrder(nodes, i, acc) ==
    IF i > Len(nodes) THEN acc
    ELSE DictKeysInOrder(nodes, i + 1,
            IF nodes[i] \in SeqToSet(acc) THEN acc ELSE Append(acc, nodes[i]))

DictValues(d) == { d[k] : k \in DOMAIN d }

\* f"A{A_index}"
ALabel(A_index) == "A" \o ToString(A_index)

\* while f"A{A_index}" in node_mappings.values(): A_index += 1
RECURSIVE SkipUsed(_, _)
SkipUsed(mapping, A_index) ==
    IF ALabel(A_index) \in DictValues(mapping)
    THEN SkipUsed(mapping, A_index + 1) ELSE A_index

\* for unique_node_index, node in enumerate(node_mappings): ...
RECURSIVE AssignLabels(_, _, _, _)
AssignLabels(mapping, keys, idx, A_index) ==
    IF idx > Len(keys) THEN mapping
    ELSE IF idx = 1 THEN AssignLabels(DictSet(mapping, keys[idx], "Y"), keys, idx + 1, A_index)
    ELSE IF idx = 2 THEN AssignLabels(DictSet(mapping, keys[idx], "X"), keys, idx + 1, A_index)
    ELSE LET free == SkipUsed(mapping, A_index)
         IN  AssignLabels(DictSet(mapping, keys[idx], ALabel(free)), keys, idx + 1, free)

\* A labelling by position in flattened_nodes, where the code labels by
\* position among the distinct nodes: a recurring node takes its last label.
VariableMappings_by_position(flattened_nodes) ==
    [ x \in SeqToSet(flattened_nodes) |->
        LET i == CHOOSE j \in 1..Len(flattened_nodes) :
                    /\ flattened_nodes[j] = x
                    /\ \A k \in (j + 1)..Len(flattened_nodes) : flattened_nodes[k] # x
        IN  IF i = 1 THEN "Y" ELSE IF i = 2 THEN "X" ELSE ALabel(i - 1) ]

\* node_mappings before constants are re-introduced (lines 42-63).
VariableMappings(flattened_nodes) ==
    LET keys == DictKeysInOrder(flattened_nodes, 1, <<>>)
        fromkeys == [k \in SeqToSet(keys) |-> "None"]
        preset == DictSet(DictSet(fromkeys, flattened_nodes[1], "Y"),
                          flattened_nodes[2], "X")
    IN  AssignLabels(preset, keys, 1, 2)

\* Re-introduction that, for an acyclic AC1 rule, keeps the second
\* flattened node where the code keeps the last one.
ReintroduceConstants_second(mapping, flattened_nodes, rule_type, variant, is_cyclical) ==
    LET first == flattened_nodes[1]
        second == flattened_nodes[2]
    IN  IF rule_type = "AC2" THEN DictSet(mapping, first, first)
        ELSE IF rule_type = "AC1"
        THEN IF is_cyclical
             THEN IF variant = "Y_as_constant"
                  THEN DictSet(mapping, first, first)
                  ELSE DictSet(mapping, second, second)
             ELSE DictSet(DictSet(mapping, first, first), second, second)
        ELSE mapping

\* The adjustment of node_mappings by rule type (lines 65-85).
ReintroduceConstants(mapping, flattened_nodes, rule_type, variant, is_cyclical) ==
    LET first == flattened_nodes[1]
        second == flattened_nodes[2]
        final == flattened_nodes[Len(flattened_nodes)]
    IN  IF rule_type = "AC2" THEN DictSet(mapping, first, first)
        ELSE IF rule_type = "AC1"
        THEN IF is_cyclical
             THEN IF variant = "Y_as_constant"
                  THEN DictSet(mapping, first, first)
                  ELSE DictSet(mapping, second, second)
             ELSE DictSet(DictSet(mapping, first, first), final, final)
        ELSE mapping

\* A confidence is the fraction num / den.
Fraction(num, den) == [num |-> num, den |-> den]

\* GeneralizedRule(bottom_rule, rule_type, AC1_rule_variant) for a bottom
\* rule that is not None; "ValueError" stands for the raises of lines 35-40.
GeneralizedRule(B, rule_type, variant) ==
    IF \/ rule_type \notin {"AC1", "AC2", "C"}
       \/ /\ rule_type = "AC1" /\ B.is_cyclical
          /\ variant \notin {"Y_as_constant", "X_as_constant"}
       \/ rule_type # "AC1" /\ variant # "None"
    THEN ErrorResult("ValueError")
    ELSE LET flattened_nodes == get_flattened_nodes(B)
             node_mappings ==
                 ReintroduceConstants(VariableMappings(flattened_nodes),
                                      flattened_nodes, rule_type, variant, B.is_cyclical)
         IN  [ kind                  |-> "GeneralizedRule",
               bottom_rule           |-> B,
               rule_type             |-> rule_type,
               AC1_rule_variant      |-> variant,
               node_mappings         |-> node_mappings,
               generalized_head      |->
                   Triple(node_mappings[B.head.subject], B.head.relation,
                          node_mappings[B.head.object], FALSE),
               generalized_body      |->
                   [i \in 1..Len(B.body) |->
                       Triple(node_mappings[B.body[i].subject], B.body[i].relation,
                              node_mappings[B.body[i].object], FALSE)],
               confidence            |-> Fraction(0, 1),
               body_groundings_count |-> 0,
               head_groundings_count |-> 0 ]

\* generalize_bottom_rule with the two branches exchanged.
generalize_bottom_rule_exchanged(B) ==
    IF ~B.is_cyclical
    THEN << GeneralizedRule(B, "AC1", "Y_as_constant"),
            GeneralizedRule(B, "AC1", "X_as_constant"),
            GeneralizedRule(B, "C", "None") >>
    ELSE << GeneralizedRule(B, "AC1", "None"),
            GeneralizedRule(B, "AC2", "None") >>

\* generalize_bottom_rule(bottom_rule) for a bottom rule that is not None.
generalize_bottom_rule(B) ==
    IF B.is_cyclical
    THEN << GeneralizedRule(B, "AC1", "Y_as_constant"),
            GeneralizedRule(B, "AC1", "X_as_constant"),
            GeneralizedRule(B, "C", "None") >>
    ELSE << GeneralizedRule(B, "AC1", "None"),
            GeneralizedRule(B, "AC2", "None") >>

\* ", ".join(f"{r}({a1}, {a2})" for (a1, r, a2) in body_mapped)
RECURSIVE JoinAtoms(_, _)
JoinAtoms(atoms, i) ==
    IF i > Len(atoms) THEN ""
    ELSE atoms[i][2] \o "(" \o atoms[i][1] \o ", " \o atoms[i][3] \o ")"
         \o (IF i < Len(atoms) THEN ", " ELSE "") \o JoinAtoms(atoms, i + 1)

\* A string of the chained bottom rule itself, without node_mappings applied.
rule_str_unmapped(rule) ==
    LET chained == get_chained(rule.bottom_rule)
        head_str == chained.head[2] \o "(" \o chained.head[1] \o ", "
                    \o chained.head[3] \o ")"
    IN  head_str \o " <- " \o JoinAtoms(chained.body, 1)

\* GeneralizedRule.__str__: the canonical string.
rule_str(rule) ==
    LET chained == get_chained(rule.bottom_rule)
        m(x) == DictGet(rule.node_mappings, x, x)
        head_str == chained.head[2] \o "(" \o m(chained.head[1]) \o ", "
                    \o m(chained.head[3]) \o ")"
        body_mapped == [i \in 1..Len(chained.body) |->
                          <<m(chained.body[i][1]), chained.body[i][2], m(chained.body[i][3])>>]
    IN  head_str \o " <- " \o JoinAtoms(body_mapped, 1)

\* The (subject, relation, object) tuples of a rule's generalized body.
BodyTuples(rule) ==
    [j \in 1..Len(rule.generalized_body) |-> as_tuple(rule.generalized_body[j])]

(***************************************************************************)
(* Confidence estimator (GeneralizedRule_withConf.py, lines 102-245).       *)
(* The estimator reads kg.adj and kg.adj_inv, both defaultdicts, so every   *)
(* operator hands on the pair idx = [adj, adj_inv] it leaves behind.        *)
(***************************************************************************)
\* value.startswith('A')
StartsWithA(value) == Len(value) > 0 /\ SubSeq(value, 1, 1) = "A"

_is_constant(value) == ~(StartsWithA(value) \/ value \in {"X", "Y"})

\* _get_variable_bindings(): the strings it returns as the variables to bind.
_get_variable_bindings(rule) ==
    LET body == rule.generalized_body
        term_vars(term) ==
            IF ~StartsWithA(term) /\ ~_is_constant(term) THEN {term} ELSE {}
        variables == UNION { term_vars(body[j].subject) \cup term_vars(body[j].object)
                             : j \in 1..Len(body) }
        aux_vars == { v \in DictValues(rule.node_mappings) : StartsWithA(v) }
    IN  variables \cup aux_vars

\* The grounding after the loop "First bind any constants".
RECURSIVE BindConstants(_, _, _)
BindConstants(body, i, grounding) ==
    IF i > Len(body) THEN grounding
    ELSE LET g1 == IF _is_constant(body[i].subject)
                   THEN DictSet(grounding, body[i].subject, body[i].subject)
                   ELSE grounding
             g2 == IF _is_constant(body[i].object)
                   THEN DictSet(g1, body[i].object, body[i].object)
                   ELSE g1
         IN  BindConstants(body, i + 1, g2)

Bound(ok, grounding, idx) == [ok |-> ok, grounding |-> grounding, idx |-> idx]

\* _bind_triple_variables(kg, triple, grounding): every (return value,
\* grounding, index) it can leave.
_bind_triple_variables(idx, triple, grounding) ==
    LET subj_key == triple.subject
        obj_key == triple.object
        rel == triple.relation
    IN  IF subj_key \in DOMAIN grounding /\ obj_key \in DOMAIN grounding
        THEN LET hf == has_fact(idx.adj, grounding[subj_key], rel, grounding[obj_key])
             IN  { Bound(hf.ret, grounding, [idx EXCEPT !.adj = hf.adj]) }
        ELSE IF subj_key \in DOMAIN grounding
        THEN LET adj1 == DefaultRead(idx.adj, rel, EmptyDict)
                 idx1 == [idx EXCEPT !.adj = adj1]
                 possible_objects == DictGet(adj1[rel], grounding[subj_key], {})
             IN  IF possible_objects = {} THEN { Bound(FALSE, grounding, idx1) }
                 ELSE { Bound(TRUE, DictSet(grounding, obj_key, o), idx1)
                        : o \in possible_objects }
        ELSE IF obj_key \in DOMAIN grounding
        THEN LET inv1 == DefaultRead(idx.adj_inv, rel, EmptyDict)
                 idx1 == [idx EXCEPT !.adj_inv = inv1]
                 possible_subjects == DictGet(inv1[rel], grounding[obj_key], {})
             IN  IF possible_subjects = {} THEN { Bound(FALSE, grounding, idx1) }
                 ELSE { Bound(TRUE, DictSet(grounding, subj_key, x), idx1)
                        : x \in possible_subjects }
        ELSE LET adj1 == DefaultRead(idx.adj, rel, EmptyDict)
                 idx1 == [idx EXCEPT !.adj = adj1]
             IN  IF DOMAIN adj1[rel] = {} THEN { Bound(FALSE, grounding, idx1) }
                 ELSE UNION {
                     LET g1 == DictSet(grounding, subj_key, random_subject)
                         possible_objects == adj1[rel][random_subject]
                     IN  IF possible_objects = {} THEN { Bound(FALSE, g1, idx1) }
                         ELSE { Bound(TRUE, DictSet(g1, obj_key, o), idx1)
                                : o \in possible_objects }
                     : random_subject \in DOMAIN adj1[rel] }

\* The loop "Try to bind all required variables" from body atom i on; a
\* failed attempt drops its grounding.
RECURSIVE BindBody(_, _, _)
BindBody(body, i, state) ==
    IF i > Len(body) THEN { state }
    ELSE UNION {
        IF out.ok THEN BindBody(body, i + 1, out)
        ELSE { Bound(FALSE, EmptyDict, out.idx) }
        : out \in _bind_triple_variables(state.idx, body[i], state.grounding) }

\* One pass of the loop `for _ in range(max_attempts)`.
Attempt(rule, idx) ==
    BindBody(rule.generalized_body, 1,
             Bound(TRUE, BindConstants(rule.generalized_body, 1, EmptyDict), idx))

max_attempts == 50

Sampled(found, grounding, idx) == [found |-> found, grounding |-> grounding, idx |-> idx]

\* Attempts k..max_attempts of _sample_body_grounding, started from any of
\* the indexes idxs.  Once the failing attempts leave the set of indexes as
\* it was, every further attempt repeats this one.
RECURSIVE Attempts(_, _, _)
Attempts(rule, idxs, k) ==
    LET outs == UNION { Attempt(rule, idx) : idx \in idxs }
        found == { Sampled(TRUE, out.grounding, out.idx) : out \in { o \in outs : o.ok } }
        failed == { out.idx : out \in { o \in outs : ~o.ok } }
    IN  IF k >= max_attempts \/ failed = idxs \/ failed = {}
        THEN found \cup { Sampled(FALSE, EmptyDict, idx) : idx \in failed }
        ELSE found \cup Attempts(rule, failed, k + 1)

\* _sample_body_grounding(kg, variables): found = FALSE stands for None.
_sample_body_grounding(rule, idx) == Attempts(rule, {idx}, 1)

\* _check_head_grounding(kg, grounding)
_check_head_grounding(rule, idx, grounding) ==
    LET head == rule.generalized_head
        head_subj == DictGet(grounding, head.subject, head.subject)
        head_obj == DictGet(grounding, head.object, head.object)
        hf == has_fact(idx.adj, head_subj, head.relation, head_obj)
    IN  [ret |-> hf.ret, idx |-> [idx EXCEPT !.adj = hf.adj]]

\* calculate_confidence without the reset of the two counters.
ResetCounters_kept(rule) == rule

\* "Reset counters" (lines 111-113).
ResetCounters(rule) ==
    [rule EXCEPT !.body_groundings_count = 0, !.head_groundings_count = 0]

\* One pass of the loop `for _ in range(sample_size)`.
SampleOnce(st) ==
    UNION {
        IF ~sg.found \/ DOMAIN sg.grounding = {}
        THEN { [st EXCEPT !.idx = sg.idx] }
        ELSE LET chk == _check_head_grounding(st.rule, sg.idx, sg.grounding)
                 r1 == [st.rule EXCEPT !.body_groundings_count = @ + 1]
                 r2 == IF chk.ret
                       THEN [r1 EXCEPT !.head_groundings_count = @ + 1]
                       ELSE r1
             IN  { [rule |-> r2, idx |-> chk.idx] }
        : sg \in _sample_body_grounding(st.rule, st.idx) }

RECURSIVE SampleLoop(_, _)
SampleLoop(states, remaining) ==
    IF remaining <= 0 THEN states
    ELSE SampleLoop(UNION { SampleOnce(st) : st \in states }, remaining - 1)

\* "Calculate confidence with smoothing" (lines 131-135); pc is a fraction.
SmoothedConfidence(h, b, pc) ==
    IF b > 0
    THEN Fraction(h * pc.den + pc.num, b * pc.den + pc.num)
    ELSE Fraction(0, 1)

\* calculate_confidence(kg, sample_size, pc): every (rule, index) the call
\* can leave.
calculate_confidence(rule, idx, sample_size, pc) ==
    { [ rule |-> [st.rule EXCEPT !.confidence =
                     SmoothedConfidence(st.rule.head_groundings_count,
                                        st.rule.body_groundings_count, pc)],
        idx  |-> st.idx ]
      : st \in SampleLoop({ [rule |-> ResetCounters(rule), idx |-> idx] }, sample_size) }

KgIndex(g) == [adj |-> g.adj, adj_inv |-> g.adj_inv]

(***************************************************************************)
(* Anytime learner (algorithm/rule_learning.py).                            *)
(***************************************************************************)
\* A quality predicate that accepts every rule.
quality_function_any(rule) == TRUE

\* The default quality_fn.
quality_function(rule) == rule.head_groundings_count >= 2

\* The loop `for rule in generalized_rules` from rule i on: every (R_s,
\* index) it can leave.
RECURSIVE ProcessRules(_, _, _, _)
ProcessRules(generalized_rules, i, states, prm) ==
    IF i > Len(generalized_rules) THEN states
    ELSE ProcessRules(generalized_rules, i + 1,
            UNION { { [ R_s |-> IF quality_function(out.rule)
                               THEN DictSet(st.R_s, rule_str(out.rule), out.rule)
                               ELSE st.R_s,
                        idx |-> out.idx ]
                      : out \in calculate_confidence(generalized_rules[i], st.idx,
                                                     prm.sample_size, prm.pc) }
                    : st \in states },
            prm)

\* A pass that generalizes every bottom rule, whatever the sample mode.
SpanBody_every_rule(g, res, mode, span_rules, prm) ==
    LET st == [R_s |-> span_rules, idx |-> KgIndex(g)]
    IN  IF res.kind # "BottomRule" THEN { st }
        ELSE ProcessRules(generalize_bottom_rule(res.rule), 1, { st }, prm)

\* One pass of the body of `while time.time() - span_start < ts`, after
\* sample_bottom_rule has returned res.
SpanBody(g, res, mode, span_rules, prm) ==
    LET st == [R_s |-> span_rules, idx |-> KgIndex(g)]
    IN  IF res.kind # "BottomRule" THEN { st }
        ELSE IF mode = "cyclic" /\ ~res.rule.is_cyclical THEN { st }
        ELSE ProcessRules(generalize_bottom_rule(res.rule), 1, { st }, prm)

\* saturation > sat, for a non-empty R_s; sat is a fraction.
Saturated(span_rules, known_rules, sat) ==
    Cardinality(DOMAIN span_rules \cap DOMAIN known_rules) * sat.den
        > sat.num * Cardinality(DOMAIN span_rules)

\* The path length with the saturation measured against every key of R_s.
NextPathLength_after_merge(path_length, span_rules, known_rules, sat) ==
    IF DOMAIN span_rules # {} /\ Saturated(span_rules, span_rules, sat)
    THEN path_length + 1 ELSE path_length

\* "Checking saturation" (lines 85-92): the path length after the span.
NextPathLength(path_length, span_rules, known_rules, sat) ==
    IF DOMAIN span_rules # {} /\ Saturated(span_rules, known_rules, sat)
    THEN path_length + 1 ELSE path_length

\* An update that keeps the earlier rule of a key both maps hold.
DictUpdate_keep(d, other) ==
    [k \in DOMAIN d \cup DOMAIN other |-> IF k \in DOMAIN d THEN d[k] ELSE other[k]]

\* dict.update(other)
DictUpdate(d, other) ==
    [k \in DOMAIN d \cup DOMAIN other |-> IF k \in DOMAIN other THEN other[k] ELSE d[k]]

(***************************************************************************)
(* Predictor (algorithm/rule_prediction.py).  A confidence is a fraction;   *)
(* floats are compared as the rationals they stand for.  The groundings of *)
(* one rule never repeat, so their list is a set; the order in which sets  *)
(* and the rule map are iterated only decides the order of candidates of   *)
(* equal rank, which the model leaves open.                                 *)
(***************************************************************************)
FracLess(x, y) == x.num * y.den < y.num * x.den

FracEq(x, y) == x.num * y.den = y.num * x.den

\* The nested function _bind_variables: the groundings one body triple
\* yields from current_grounding.
_bind_variables(idx, triple, current_grounding) ==
    LET subj == triple.subject
        obj  == triple.object
        g    == current_grounding
    IN  IF subj \in DOMAIN g /\ obj \in DOMAIN g
        THEN IF has_fact(idx.adj, g[subj], triple.relation, g[obj]).ret
             THEN { g } ELSE {}
        ELSE IF subj \in DOMAIN g
        THEN { DictSet(g, obj, possible_obj) :
                 possible_obj \in DictGet(DictGet(idx.adj, triple.relation, EmptyDict),
                                          g[subj], {}) }
        ELSE IF obj \in DOMAIN g
        THEN { DictSet(g, subj, possible_subj) :
                 possible_subj \in DictGet(DictGet(idx.adj_inv, triple.relation, EmptyDict),
                                           g[obj], {}) }
        ELSE {}

\* The index after _bind_variables has read it for one grounding.
BindReads(idx, triple, g) ==
    IF triple.subject \in DOMAIN g /\ triple.object \in DOMAIN g
    THEN [idx EXCEPT !.adj = has_fact(idx.adj, g[triple.subject], triple.relation,
                                      g[triple.object]).adj]
    ELSE IF triple.subject \in DOMAIN g
    THEN [idx EXCEPT !.adj = DefaultRead(idx.adj, triple.relation, EmptyDict)]
    ELSE IF triple.object \in DOMAIN g
    THEN [idx EXCEPT !.adj_inv = DefaultRead(idx.adj_inv, triple.relation, EmptyDict)]
    ELSE idx

RECURSIVE BindReadsAll(_, _, _)
BindReadsAll(idx, triple, groundings) ==
    IF groundings = {} THEN idx
    ELSE LET g == CHOOSE x \in groundings : TRUE
         IN  BindReadsAll(BindReads(idx, triple, g), triple, groundings \ {g})

\* The loop `for body_triple in rule.generalized_body` from triple i on.
RECURSIVE CompleteFrom(_, _, _, _)
CompleteFrom(body, i, current_groundings, idx) ==
    IF i > Len(body) THEN [groundings |-> current_groundings, idx |-> idx]
    ELSE LET new_groundings ==
                 UNION { _bind_variables(idx, body[i], g) : g \in current_groundings }
             after == BindReadsAll(idx, body[i], current_groundings)
         IN  IF new_groundings = {} THEN [groundings |-> {}, idx |-> after]
             ELSE CompleteFrom(body, i + 1, new_groundings, after)

_complete_grounding(rule, idx, partial_grounding) ==
    CompleteFrom(rule.generalized_body, 1, { partial_grounding }, idx)

\* The grounding a query entity gives the head term it is put in, or "none"
\* when the term is a different constant.
HeadGrounding(term, entity) ==
    IF term = "Y" THEN [ok |-> TRUE, grounding |-> DictSet(EmptyDict, "Y", entity)]
    ELSE IF term = "X" THEN [ok |-> TRUE, grounding |-> DictSet(EmptyDict, "X", entity)]
    ELSE IF term # entity THEN [ok |-> FALSE, grounding |-> EmptyDict]
    ELSE [ok |-> TRUE, grounding |-> DictSet(EmptyDict, entity, entity)]

\* The entities the completed groundings predict for the head term, each with
\* the number of groundings that predict it.
Predicted(term, groundings) ==
    LET produces(g) == IF term \in {"X", "Y"} THEN term \in DOMAIN g ELSE TRUE
        value(g)    == IF term \in {"X", "Y"} THEN g[term] ELSE term
        made        == { g \in groundings : produces(g) }
    IN  [c \in { value(g) : g \in made } |->
            Cardinality({ g \in made : value(g) = c })]

\* A rule applied to one side of its head: counts[c] is how often the list
\* `predictions` holds (c, rule.confidence).
ApplyRule(rule, idx, bound_term, entity, free_term) ==
    LET start == HeadGrounding(bound_term, entity)
    IN  IF ~start.ok THEN [counts |-> EmptyDict, completed |-> {}, idx |-> idx]
        ELSE LET done == _complete_grounding(rule, idx, start.grounding)
             IN  [counts |-> Predicted(free_term, done.groundings),
                  completed |-> done.groundings, idx |-> done.idx]

_apply_rule_tail(rule, idx, subject) ==
    ApplyRule(rule, idx, rule.generalized_head.subject, subject,
              rule.generalized_head.object)

_apply_rule_head(rule, idx, object) ==
    ApplyRule(rule, idx, rule.generalized_head.object, object,
              rule.generalized_head.subject)

\* list.sort(key=lambda x: x.confidence, reverse=True) on the rules named by
\* keys; the rules stand in the list by their keys in the map.
RECURSIVE SortByConfidence(_, _)
SortByConfidence(rule_map, keys) ==
    IF keys = {} THEN <<>>
    ELSE LET top == CHOOSE k \in keys :
                       \A j \in keys : ~FracLess(rule_map[k].confidence,
                                                 rule_map[j].confidence)
         IN  <<top>> \o SortByConfidence(rule_map, keys \ {top})

\* RulePrediction.__init__: rules_by_relation.
RulePrediction_init(rule_map) ==
    [rel \in { rule_map[k].generalized_head.relation : k \in DOMAIN rule_map } |->
        SortByConfidence(rule_map,
            { k \in DOMAIN rule_map : rule_map[k].generalized_head.relation = rel })]

RECURSIVE Repeat(_, _)
Repeat(x, count) == IF count <= 0 THEN <<>> ELSE <<x>> \o Repeat(x, count - 1)

\* How many entries a rule's predictions add to candidates[c].
Contribution(applied, c) ==
    IF c \in DOMAIN applied.counts THEN applied.counts[c] ELSE 0

\* sorted(candidates[c], reverse=True): applied maps the key of each
\* applicable rule to its ApplyRule result.
RECURSIVE SortedConf(_, _, _, _)
SortedConf(rule_map, applied, keys, c) ==
    IF keys = {} THEN <<>>
    ELSE LET top == CHOOSE k \in keys :
                       \A j \in keys : ~FracLess(rule_map[k].confidence,
                                                 rule_map[j].confidence)
         IN  Repeat(rule_map[top].confidence, Contribution(applied[top], c))
             \o SortedConf(rule_map, applied, keys \ {top}, c)

\* tuple(sorted_conf + [0] * (k - len(sorted_conf)))
ConfTuple(sorted_conf, k) == sorted_conf \o Repeat(Fraction(0, 1), k - Len(sorted_conf))

\* Python's x < y on two tuples of numbers.
TupleLess(x, y) ==
    LET common == IF Len(x) < Len(y) THEN Len(x) ELSE Len(y)
        differ == { i \in 1..common : ~FracEq(x[i], y[i]) }
    IN  IF differ = {} THEN Len(x) < Len(y)
        ELSE LET i == CHOOSE d \in differ : \A e \in differ : d <= e
             IN  FracLess(x[i], y[i])

\* An order on the aggregated pairs that looks at the best confidence only.
PairLess_first_only(a, b) == FracLess(a.conf_tuple[1], b.conf_tuple[1])

\* key=lambda x: x[1] on the pairs (entity, conf_tuple).
PairLess(a, b) == TupleLess(a.conf_tuple, b.conf_tuple)

\* heapq.nlargest(k, aggregated, key=...): every list it can return.
RECURSIVE nlargest(_, _)
nlargest(k, aggregated) ==
    IF k <= 0 \/ aggregated = {} THEN { <<>> }
    ELSE UNION { { <<top>> \o rest : rest \in nlargest(k - 1, aggregated \ {top}) }
                 : top \in { a \in aggregated :
                               \A b \in aggregated : ~PairLess(a, b) } }

\* The index after every applicable rule was applied.
RECURSIVE ApplyAll(_, _, _, _, _)
ApplyAll(rule_map, keys, idx, entity, tail) ==
    IF keys = {} THEN [applied |-> EmptyDict, idx |-> idx]
    ELSE LET k    == CHOOSE x \in keys : TRUE
             one  == IF tail THEN _apply_rule_tail(rule_map[k], idx, entity)
                     ELSE _apply_rule_head(rule_map[k], idx, entity)
             more == ApplyAll(rule_map, keys \ {k}, one.idx, entity, tail)
         IN  [applied |-> DictSet(more.applied, k, one), idx |-> more.idx]

\* The body shared by predict_tail and predict_head: every (list, index) the
\* call can leave.
Predict(rule_map, by_relation, idx, entity, relation, k, tail) ==
    LET applicable == SeqToSet(DictGet(by_relation, relation, <<>>))
        all        == ApplyAll(rule_map, applicable, idx, entity, tail)
        cands      == UNION { DOMAIN all.applied[key].counts : key \in applicable }
        aggregated == { [entity |-> c,
                         conf_tuple |-> ConfTuple(SortedConf(rule_map, all.applied,
                                                             applicable, c), k)]
                        : c \in cands }
    IN  { [ret |-> [i \in 1..Len(top_k) |->
                      <<top_k[i].entity, top_k[i].conf_tuple[1]>>],
           aggregated |-> aggregated,
           completed |-> [key \in applicable |-> all.applied[key].completed],
           by_relation |-> DefaultRead(by_relation, relation, <<>>),
           idx |-> all.idx]
          : top_k \in nlargest(k, aggregated) }

predict_tail(rule_map, by_relation, idx, subject, relation, k) ==
    Predict(rule_map, by_relation, idx, subject, relation, k, TRUE)

predict_head(rule_map, by_relation, idx, relation, object, k) ==
    Predict(rule_map, by_relation, idx, object, relation, k, FALSE)

(***************************************************************************)
(* Evaluation (run_replication.py, evaluate_predictions).                   *)
(***************************************************************************)
\* kg.adj.get(relation, {}).get(subject, set())
KnownObjs(adj, relation, subject) ==
    DictGet(DictGet(adj, relation, EmptyDict), subject, {})

\* A filter that keeps the unknown objects only.
KeepCandidate_unknown_only(obj, true_object, known_objs) == obj \notin known_objs

\* (obj == true_object) or (obj not in known_objs)
KeepCandidate(obj, true_object, known_objs) ==
    obj = true_object \/ obj \notin known_objs

\* Step (2): the loop that builds filtered_candidates.
FilterCandidates(predictions, true_object, known_objs) ==
    LET keep(p) == KeepCandidate(p[1], true_object, known_objs)
    IN  SelectSeq(predictions, keep)

\* Step (3): list.sort(key=lambda x: x[1], reverse=True), which is stable:
\* pairs of equal score keep their order.
RECURSIVE SortByScore(_)
SortByScore(q) ==
    IF q = <<>> THEN <<>>
    ELSE LET best == CHOOSE i \in 1..Len(q) :
                        /\ \A j \in 1..Len(q) : ~FracLess(q[i][2], q[j][2])
                        /\ \A j \in 1..(i - 1) : FracLess(q[j][2], q[i][2])
             rest == [j \in 1..(Len(q) - 1) |-> IF j < best THEN q[j] ELSE q[j + 1]]
         IN  <<q[best]>> \o SortByScore(rest)

\* pred_objects.index(true_object) + 1, for a list that holds true_object.
RankOf(pred_objects, true_object) ==
    CHOOSE i \in 1..Len(pred_objects) :
        /\ pred_objects[i] = true_object
        /\ \A j \in 1..(i - 1) : pred_objects[j] # true_object

\* Steps (2) to (4) of one pass of the loop over test_triples.
RankTriple(predictions, true_object, known_objs, k) ==
    LET filtered_candidates ==
            SortByScore(FilterCandidates(predictions, true_object, known_objs))
        pred_objects ==
            [i \in 1..Len(filtered_candidates) |-> filtered_candidates[i][1]]
    IN  [ filtered_candidates |-> filtered_candidates,
          hit_1 |-> Len(pred_objects) > 0 /\ pred_objects[1] = true_object,
          hit_k |-> \E i \in 1..Len(pred_objects) :
                        i <= k /\ pred_objects[i] = true_object,
          reciprocal_rank |->
              IF true_object \in SeqToSet(pred_objects)
              THEN Fraction(1, RankOf(pred_objects, true_object))
              ELSE Fraction(0, 1) ]

FracAdd(x, y) == Fraction(x.num * y.den + y.num * x.den, x.den * y.den)

RECURSIVE FracSum(_)
FracSum(q) == IF q = <<>> THEN Fraction(0, 1) ELSE FracAdd(q[1], FracSum(Tail(q)))

\* The returned dict.
Metrics(hits_at_1, hits_at_k, reciprocal_ranks, total) ==
    IF total > 0
    THEN [ hits_at_1 |-> Fraction(hits_at_1, total),
           hits_at_k |-> Fraction(hits_at_k, total),
           mrr |-> LET sum == FracSum(reciprocal_ranks)
                   IN  Fraction(sum.num, sum.den * total) ]
    ELSE [ hits_at_1 |-> Fraction(0, 1), hits_at_k |-> Fraction(0, 1),
           mrr |-> Fraction(0, 1) ]

(***************************************************************************)
(* State.                                                                   *)
(***************************************************************************)
VARIABLES
    input,      \* the tuples the graph was constructed from
    kg,         \* the KnowledgeGraph object
    calls,      \* number of operations performed on the graph
    last,       \* the last operation: its name, arguments and return value
    phase,      \* rule pipeline: "start", "sampled" or "generalized"
    sampled,    \* what sample_bottom_rule returned
    rules,      \* the list generalize_bottom_rule returned
    params,     \* the arguments of AnyBURL
    lpc,        \* where AnyBURL stands: "outer", "inner" or "done"
    n,          \* the learner's path length
    global_rules,
    R_s,
    iteration,
    sample_mode,
    clock,      \* the value of the last time.time() read
    total_start,
    span_start,
    span_G,     \* global_rules as it was when the current span began
    rules_by_relation   \* the predictor's index of global_rules

graphVars == <<input, kg, calls, last>>
ruleVars == <<phase, sampled, rules>>
learnVars == <<params, lpc, n, global_rules, R_s, iteration, sample_mode,
               clock, total_start, span_start, span_G>>
predVars == <<rules_by_relation>>
vars == <<graphVars, ruleVars, learnVars, predVars>>

NoParams == [sample_size |-> 0]

\* The learner's variables while no learner runs.
LearnerIdle ==
    /\ params = NoParams
    /\ lpc = "idle"
    /\ n = 2
    /\ global_rules = EmptyDict
    /\ R_s = EmptyDict
    /\ iteration = 0
    /\ sample_mode = "all"
    /\ clock = 0
    /\ total_start = 0
    /\ span_start = 0
    /\ span_G = EmptyDict
    /\ rules_by_relation = EmptyDict

NoCall == [op |-> "none"]

(***************************************************************************)
(* Graph specification: construction, then has_fact queries.               *)
(***************************************************************************)
Init ==
    /\ input \in Inputs
    /\ kg = KnowledgeGraph_init(input)
    /\ calls = 0
    /\ last = NoCall
    /\ phase = "start"
    /\ sampled = NoneResult
    /\ rules = <<>>
    /\ LearnerIdle

HasFact(s, r, o) ==
    /\ calls < MaxCalls
    /\ LET res == has_fact(kg.adj, s, r, o)
       IN  /\ kg' = [kg EXCEPT !.adj = res.adj]
           /\ last' = [op |-> "has_fact", s |-> s, r |-> r, o |-> o, ret |-> res.ret]
    /\ calls' = calls + 1
    /\ UNCHANGED <<input, ruleVars, learnVars, predVars>>

Next ==
    \E s \in Entities, r \in Relations, o \in Entities : HasFact(s, r, o)

Spec == Init /\ [][Next]_vars

(***************************************************************************)
(* Rule specification: one bottom rule is sampled from a graph.            *)
(***************************************************************************)
InitRule ==
    /\ input \in Inputs
    /\ kg = KnowledgeGraph_init(input)
    /\ calls = 0
    /\ last = NoCall
    /\ phase = "start"
    /\ sampled = NoneResult
    /\ rules = <<>>
    /\ LearnerIdle

Sample(length, direction_allowed) ==
    /\ phase = "start"
    /\ \E res \in sample_bottom_rule(kg, length, direction_allowed) : sampled' = res
    /\ last' = [op |-> "sample", n |-> length, direction_allowed |-> direction_allowed]
    /\ phase' = "sampled"
    /\ UNCHANGED <<input, kg, calls, rules, learnVars, predVars>>

Generalize ==
    /\ phase = "sampled"
    /\ sampled.kind = "BottomRule"
    /\ rules' = generalize_bottom_rule(sampled.rule)
    /\ phase' = "generalized"
    /\ UNCHANGED <<graphVars, sampled, learnVars, predVars>>

MaxSampleSize == 2

\* Pessimistic constants, as fractions.
Pcs == { Fraction(0, 1), Fraction(1, 2) }

\* rules[i].calculate_confidence(kg, sample_size, pc); within one run the
\* calls go to one rule of the list, with one sample_size and one pc.
CalculateConfidence(i, sample_size, pc) ==
    /\ phase = "generalized"
    /\ i \in 1..Len(rules)
    /\ last.op = "calculate_confidence" =>
          last.i = i /\ last.sample_size = sample_size /\ last.pc = pc
    /\ \E out \in calculate_confidence(rules[i], KgIndex(kg), sample_size, pc) :
          /\ rules' = [rules EXCEPT ![i] = out.rule]
          /\ kg' = [kg EXCEPT !.adj = out.idx.adj, !.adj_inv = out.idx.adj_inv]
          /\ last' = [ op |-> "calculate_confidence", i |-> i,
                       sample_size |-> sample_size, pc |-> pc,
                       repeated |-> (last.op = "calculate_confidence"),
                       ret |-> out.rule.confidence ]
    /\ UNCHANGED <<input, calls, phase, sampled, learnVars, predVars>>

NextRule ==
    \/ \E length \in 0..MaxN, d \in Directions : Sample(length, d)
    \/ Generalize

NextConf ==
    \/ \E length \in 1..MaxN : Sample(length, "both")
    \/ Generalize
    \/ \E i \in 1..3, sample_size \in 0..MaxSampleSize, pc \in Pcs :
          CalculateConfidence(i, sample_size, pc)

SpecConf == InitRule /\ [][NextConf]_vars

(***************************************************************************)
(* Learner specification: AnyBURL(kg, ...) runs on a graph.  Time is in     *)
(* units of the clock; every time.time() read is later than the one before *)
(* by 1..MaxTick units.                                                     *)
(***************************************************************************)
MaxTick == 1
MaxTotalTime == 10

ParamSets ==
    [ sample_size               : {2},
      sat                       : {Fraction(1, 2)},
      ts                        : {2},
      pc                        : {Fraction(1, 1)},
      max_total_time            : {MaxTotalTime},
      alternate_cyclic_sampling : BOOLEAN ]

\* A clock that may stand still between two reads.
Ticks_with_zero == 0..MaxTick

\* What the clock advances by from one time.time() to the next: the clock
\* strictly advances.
Ticks == 1..MaxTick

\* The learner's graphs: tuple lists without repetition, in the pool's order.
PoolRank(t) == CHOOSE i \in 1..Len(PoolList) : PoolList[i] = t

LearnInputs ==
    { q \in Inputs : \A i \in 1..(Len(q) - 1) : PoolRank(q[i]) < PoolRank(q[i + 1]) }

\* AnyBURL up to `total_start = time.time()`.
InitLearn ==
    /\ input \in LearnInputs
    /\ kg = KnowledgeGraph_init(input)
    /\ calls = 0
    /\ last = NoCall
    /\ phase = "start"
    /\ sampled = NoneResult
    /\ rules = <<>>
    /\ params \in ParamSets
    /\ lpc = "outer"
    /\ n = 2
    /\ global_rules = EmptyDict
    /\ R_s = EmptyDict
    /\ iteration = 0
    /\ sample_mode = "all"
    /\ clock = 0
    /\ total_start = 0
    /\ span_start = 0
    /\ span_G = EmptyDict
    /\ rules_by_relation = EmptyDict

\* `while time.time() - total_start < max_total_time` holds: the iteration
\* begins, up to `span_start = time.time()`.
SpanBegin ==
    /\ lpc = "outer"
    /\ \E t1 \in Ticks, t2 \in Ticks :
          /\ (clock + t1) - total_start < params.max_total_time
          /\ clock' = clock + t1 + t2
          /\ span_start' = clock + t1 + t2
    /\ iteration' = iteration + 1
    /\ sample_mode' =
          IF n = 3 /\ params.alternate_cyclic_sampling /\ (iteration + 1) % 2 = 1
          THEN "cyclic" ELSE "all"
    /\ R_s' = EmptyDict
    /\ span_G' = global_rules
    /\ lpc' = "inner"
    /\ UNCHANGED <<graphVars, ruleVars, params, n, global_rules, total_start, predVars>>

\* The outer loop's condition fails: `return global_rules`.
Return ==
    /\ lpc = "outer"
    /\ \E t1 \in Ticks :
          /\ ~((clock + t1) - total_start < params.max_total_time)
          /\ clock' = clock + t1
    /\ lpc' = "done"
    /\ UNCHANGED <<graphVars, ruleVars, params, n, global_rules, R_s, iteration,
                   sample_mode, total_start, span_start, span_G, predVars>>

\* `while time.time() - span_start < ts` holds: one bottom rule is sampled,
\* generalized and scored.
SpanSample ==
    /\ lpc = "inner"
    /\ \E t1 \in Ticks :
          /\ (clock + t1) - span_start < params.ts
          /\ clock' = clock + t1
    /\ \E res \in sample_bottom_rule(kg, n, "both") :
          /\ sampled' = res
          /\ IF res.kind \notin {"None", "BottomRule"}
             THEN /\ lpc' = "raised"
                  /\ UNCHANGED <<R_s, kg>>
             ELSE /\ \E out \in SpanBody(kg, res, sample_mode, R_s, params) :
                        /\ R_s' = out.R_s
                        /\ kg' = [kg EXCEPT !.adj = out.idx.adj,
                                            !.adj_inv = out.idx.adj_inv]
                  /\ UNCHANGED lpc
    /\ UNCHANGED <<input, calls, last, phase, rules, params, n, global_rules,
                   iteration, sample_mode, total_start, span_start, span_G, predVars>>

\* The span's loop condition fails: saturation, path length, merge.
SpanEnd ==
    /\ lpc = "inner"
    /\ \E t1 \in Ticks :
          /\ ~((clock + t1) - span_start < params.ts)
          /\ clock' = clock + t1
    /\ n' = NextPathLength(n, R_s, global_rules, params.sat)
    /\ global_rules' = DictUpdate(global_rules, R_s)
    /\ lpc' = "outer"
    /\ UNCHANGED <<graphVars, ruleVars, params, R_s, iteration, sample_mode,
                   total_start, span_start, span_G, predVars>>

NextLearn == SpanBegin \/ SpanSample \/ SpanEnd \/ Return

SpecLearn == InitLearn /\ [][NextLearn]_vars

\* The call of sample_bottom_rule in a pass of the inner loop: the part of
\* SpanSample that reads the clock and samples.
Sampling ==
    /\ lpc = "inner"
    /\ \E t1 \in Ticks :
          /\ (clock + t1) - span_start < params.ts
          /\ clock' = clock + t1
    /\ sampled' \in sample_bottom_rule(kg, n, "both")

\* The learner is a running loop: a loop condition that can be read is read,
\* and a pass of the inner loop that can be made is made.
SpecLearnFair ==
    /\ SpecLearn
    /\ WF_vars(SpanBegin)
    /\ WF_vars(Return)
    /\ WF_vars(SpanEnd)
    /\ WF_<<clock, sampled>>(Sampling)

SpecRule == InitRule /\ [][NextRule]_vars

\* The sampler called directly and called by the learner.
InitSample == InitRule \/ InitLearn

NextSample == (lpc = "idle" /\ NextRule) \/ NextLearn

SpecSample == InitSample /\ [][NextSample]_vars

(***************************************************************************)
(* Chain specification: one bottom rule is sampled from a graph over four  *)
(* entities, so that a walk of MaxN edges can visit four distinct nodes or *)
(* close a triangle, is generalized, and its rules' confidence estimated.   *)
(***************************************************************************)
InitChain ==
    /\ input \in SeqsUpTo({ <<"a", "r", "b">>, <<"b", "r", "c">>,
                            <<"c", "r", "a">>, <<"c", "r", "d">> }, MaxTriples) \ { <<>> }
    /\ kg = KnowledgeGraph_init(input)
    /\ calls = 0
    /\ last = NoCall
    /\ phase = "start"
    /\ sampled = NoneResult
    /\ rules = <<>>
    /\ LearnerIdle

SpecChain == InitChain /\ [][NextConf]_vars

(***************************************************************************)
(* Names specification: the confidence of the rules of one bottom rule is  *)
(* estimated on a graph whose entities include the identifiers Ann and X.  *)
(***************************************************************************)
InitNames ==
    /\ input \in SeqsUpTo({ <<"Ann", "r", "b">>, <<"b", "r", "c">>,
                            <<"c", "r", "Ann">>, <<"X", "r", "b">> }, MaxTriples) \ { <<>> }
    /\ kg = KnowledgeGraph_init(input)
    /\ calls = 0
    /\ last = NoCall
    /\ phase = "start"
    /\ sampled = NoneResult
    /\ rules = <<>>
    /\ LearnerIdle

SpecNames == InitNames /\ [][NextConf]_vars

(***************************************************************************)
(* Temporal specification: one bottom rule is sampled from a graph with    *)
(* timestamps by the extension's sampler.                                   *)
(***************************************************************************)
MaxWindow == 1

\* The graph is built from tuples with a timestamp and one without.
InitTemporal ==
    /\ input \in SeqsUpTo({ <<"a", "r", "b", 2>>, <<"b", "r", "c", 1>>,
                            <<"b", "q", "c", 3>>, <<"c", "r", "a">> }, MaxTriples) \ { <<>> }
    /\ kg = TemporalKnowledgeGraph_init(input)
    /\ calls = 0
    /\ last = NoCall
    /\ phase = "start"
    /\ sampled = NoneResult
    /\ rules = <<>>
    /\ LearnerIdle

SampleTemporal(length, direction_allowed, temporal_window) ==
    /\ phase = "start"
    /\ \E res \in sample_bottom_rule_temporal(kg, length, direction_allowed,
                                              temporal_window) : sampled' = res
    /\ last' = [op |-> "sample", n |-> length, direction_allowed |-> direction_allowed,
                temporal_window |-> temporal_window]
    /\ phase' = "sampled"
    /\ UNCHANGED <<input, kg, calls, rules, learnVars, predVars>>

NextTemporal ==
    \E length \in 1..MaxN, temporal_window \in { <<>> } \cup { <<w>> : w \in 0..MaxWindow } :
       SampleTemporal(length, "both", temporal_window)

SpecTemporal == InitTemporal /\ [][NextTemporal]_vars

(***************************************************************************)
(* Triple specification: two triples of one class are constructed, then    *)
(* the first is flipped, and flipped again.                                 *)
(***************************************************************************)
Timestamps == { <<>>, <<1>>, <<2>> }

MaxFlips == 2

TripleValues(cls) ==
    IF cls = "Triple"
    THEN { Triple(s, r, o, rev)
           : s \in Entities, r \in Relations, o \in Entities, rev \in BOOLEAN }
    ELSE { TemporalTriple(tr.subject, tr.relation, tr.object, ts, tr.reversed)
           : tr \in { Triple(s, r, o, rev)
                      : s \in Entities, r \in Relations, o \in Entities,
                        rev \in BOOLEAN },
             ts \in Timestamps }

InitTriple ==
    /\ input = <<>>
    /\ kg = KnowledgeGraph_init(input)
    /\ calls = 0
    /\ last = NoCall
    /\ phase = "start"
    /\ sampled = NoneResult
    /\ rules = <<>>
    /\ LearnerIdle

\* t = Triple(...); other = Triple(...), both of the class cls.
NewTriples(cls, t, other) ==
    /\ last = NoCall
    /\ last' = [op |-> "Triple", cls |-> cls, t |-> t, x |-> t, other |-> other,
                flips |-> 0]
    /\ UNCHANGED <<input, kg, calls, ruleVars, learnVars, predVars>>

\* x = x.flipped()
Flip ==
    /\ last.op = "Triple"
    /\ last.flips < MaxFlips
    /\ last' = [last EXCEPT !.x = IF last.cls = "Triple" THEN flipped(@)
                                  ELSE TemporalTriple_flipped(@),
                            !.flips = @ + 1]
    /\ UNCHANGED <<input, kg, calls, ruleVars, learnVars, predVars>>

NextTriple ==
    \/ \E cls \in {"Triple", "TemporalTriple"} :
          \E t \in TripleValues(cls), other \in TripleValues(cls) :
              NewTriples(cls, t, other)
    \/ Flip

SpecTriple == InitTriple /\ [][NextTriple]_vars

(***************************************************************************)
(* Predictor specification: RulePrediction(rules, kg) is constructed on a   *)
(* graph and a rule map, then queried.  The rules are generalizations of   *)
(* bottom rules of the graph, with counters and the confidence that        *)
(* calculate_confidence derives from them.                                 *)
(***************************************************************************)
RuleLengths == {2, 3}
MaxK == 2

\* (head_groundings_count, body_groundings_count) of the rules of a map.
Counts == { <<0, 1>>, <<1, 1>> }

Scored(rule, count) ==
    [rule EXCEPT !.head_groundings_count = count[1],
                 !.body_groundings_count = count[2],
                 !.confidence = SmoothedConfidence(count[1], count[2], Fraction(1, 1))]

Generalized(g) ==
    UNION { SeqToSet(generalize_bottom_rule(res.rule))
            : res \in { x \in UNION { sample_bottom_rule(g, len, "both") : len \in RuleLengths }
                        : x.kind = "BottomRule" } }

\* What the predictor reads of a rule, with the key it is stored under.
Shape(rule) == <<rule_str(rule), as_tuple(rule.generalized_head), BodyTuples(rule)>>

\* One rule of every shape.
RulePool(g) ==
    LET all == Generalized(g)
    IN  { CHOOSE r \in all : Shape(r) = sh : sh \in { Shape(r) : r \in all } }

\* The rule maps of one or two rules.
RuleMaps(g) ==
    LET pool == RulePool(g)
    IN  { DictSet(DictSet(EmptyDict, rule_str(r1), Scored(r1, c1)),
                  rule_str(r2), Scored(r2, c2))
          : r1 \in pool, r2 \in pool, c1 \in Counts, c2 \in Counts }

InitPredict ==
    /\ input \in LearnInputs
    /\ kg = KnowledgeGraph_init(input)
    /\ calls = 0
    /\ last = NoCall
    /\ phase = "start"
    /\ sampled = NoneResult
    /\ rules = <<>>
    /\ params = NoParams
    /\ lpc = "idle"
    /\ n = 2
    /\ global_rules \in RuleMaps(kg)
    /\ R_s = EmptyDict
    /\ iteration = 0
    /\ sample_mode = "all"
    /\ clock = 0
    /\ total_start = 0
    /\ span_start = 0
    /\ span_G = EmptyDict
    /\ rules_by_relation = RulePrediction_init(global_rules)

\* predictor.predict_tail(subject, relation, k); one query is made in a run,
\* any number of times.
PredictTail(subject, relation, k) ==
    /\ lpc = "idle"
    /\ last.op # "none" =>
          /\ last.op = "predict_tail"
          /\ last.entity = subject /\ last.relation = relation /\ last.k = k
    /\ \E out \in predict_tail(global_rules, rules_by_relation, KgIndex(kg),
                              subject, relation, k) :
          /\ last' = [ op |-> "predict_tail", entity |-> subject, relation |-> relation,
                       k |-> k, ret |-> out.ret, aggregated |-> out.aggregated,
                       completed |-> out.completed ]
          /\ kg' = [kg EXCEPT !.adj = out.idx.adj, !.adj_inv = out.idx.adj_inv]
          /\ rules_by_relation' = out.by_relation
    /\ UNCHANGED <<input, calls, ruleVars, learnVars>>

\* predictor.predict_head(relation, object, k)
PredictHead(relation, object, k) ==
    /\ lpc = "idle"
    /\ last.op # "none" =>
          /\ last.op = "predict_head"
          /\ last.entity = object /\ last.relation = relation /\ last.k = k
    /\ \E out \in predict_head(global_rules, rules_by_relation, KgIndex(kg),
                              relation, object, k) :
          /\ last' = [ op |-> "predict_head", entity |-> object, relation |-> relation,
                       k |-> k, ret |-> out.ret, aggregated |-> out.aggregated,
                       completed |-> out.completed ]
          /\ kg' = [kg EXCEPT !.adj = out.idx.adj, !.adj_inv = out.idx.adj_inv]
          /\ rules_by_relation' = out.by_relation
    /\ UNCHANGED <<input, calls, ruleVars, learnVars>>

NextPredict ==
    \/ \E subject \in Entities, relation \in Relations, k \in 1..MaxK :
          PredictTail(subject, relation, k)
    \/ \E relation \in Relations, object \in Entities, k \in 1..MaxK :
          PredictHead(relation, object, k)

SpecPredict == InitPredict /\ [][NextPredict]_vars

(***************************************************************************)
(* Evaluation specification: a predictor is evaluated on a list of test     *)
(* triples, one pass of the loop at a time.                                 *)
(***************************************************************************)
MaxTests == 2

TestLists ==
    { q \in SeqsUpTo(TriplePool, MaxTests) :
        \A i \in 1..(Len(q) - 1) : PoolRank(q[i]) < PoolRank(q[i + 1]) }

InitEval == InitPredict

\* evaluate_predictions(predictor, kg, test_triples, k) up to the loop.
EvaluateBegin(test_triples, k) ==
    /\ lpc = "idle"
    /\ last = NoCall
    /\ last' = [ op |-> "evaluate_predictions", test_triples |-> test_triples,
                 k |-> k, hits_at_1 |-> 0, hits_at_k |-> 0,
                 reciprocal_ranks |-> <<>>, total |-> 0,
                 predictions |-> <<>>, filtered_candidates |-> <<>>,
                 returned |-> FALSE,
                 ret |-> Metrics(0, 0, <<>>, 0) ]
    /\ UNCHANGED <<input, kg, calls, ruleVars, learnVars, predVars>>

\* One pass of `for test_triple in test_triples`.
EvaluateTriple ==
    /\ last.op = "evaluate_predictions"
    /\ last.total < Len(last.test_triples)
    /\ LET test_triple == from_tuple(last.test_triples[last.total + 1])
       IN  \E out \in predict_tail(global_rules, rules_by_relation, KgIndex(kg),
                                   test_triple.subject, test_triple.relation, last.k) :
             LET known_objs == KnownObjs(out.idx.adj, test_triple.relation,
                                         test_triple.subject)
                 ranked == RankTriple(out.ret, test_triple.object, known_objs, last.k)
             IN  /\ last' = [last EXCEPT
                               !.predictions = out.ret,
                               !.filtered_candidates = ranked.filtered_candidates,
                               !.hits_at_1 = IF ranked.hit_1 THEN @ + 1 ELSE @,
                               !.hits_at_k = IF ranked.hit_k THEN @ + 1 ELSE @,
                               !.reciprocal_ranks = Append(@, ranked.reciprocal_rank),
                               !.total = @ + 1]
                 /\ kg' = [kg EXCEPT !.adj = out.idx.adj, !.adj_inv = out.idx.adj_inv]
                 /\ rules_by_relation' = out.by_relation
    /\ UNCHANGED <<input, calls, ruleVars, learnVars>>

\* The return after the loop.
EvaluateReturn ==
    /\ last.op = "evaluate_predictions"
    /\ last.total = Len(last.test_triples)
    /\ ~last.returned
    /\ last' = [last EXCEPT
                  !.returned = TRUE,
                  !.ret = Metrics(last.hits_at_1, last.hits_at_k,
                                  last.reciprocal_ranks, last.total)]
    /\ UNCHANGED <<input, kg, calls, ruleVars, learnVars, predVars>>

NextEval ==
    \/ \E test_triples \in TestLists, k \in 1..MaxK : EvaluateBegin(test_triples, k)
    \/ EvaluateTriple
    \/ EvaluateReturn

SpecEval == InitEval /\ [][NextEval]_vars

(***************************************************************************)
(* Claims about the graph index.                                            *)
(***************************************************************************)
InputSet == SeqToSet(input)

\* C1: has_fact(s, r, o) returns true exactly when (s, r, o) occurs in the
\* input sequence the graph was built from, and false for every other
\* (s, r, o), also when r or s never occurs in the input.
C1_HasFactIffInput ==
    last.op = "has_fact" => (last.ret <=> <<last.s, last.r, last.o>> \in InputSet)

\* A has_fact call on a non-empty graph answered false for a relation that
\* no input triple uses, after an earlier call.
C1_Witness ==
    /\ last.op = "has_fact"
    /\ calls = 2
    /\ input # <<>>
    /\ ~last.ret
    /\ \A i \in 1..Len(input) : input[i][2] # last.r

\* C2: right after construction every input triple (s, r, o) is found in
\* all five index structures and in the two catalogues, and no structure
\* holds a key or an entry that does not come from an input triple.
C2_IndexAgreesWithInput ==
    calls = 0 =>
      /\ Len(kg.triples) = Len(input)
      /\ \A i \in 1..Len(input) :
            LET s == input[i][1]
                r == input[i][2]
                o == input[i][3]
            IN  /\ as_tuple(kg.triples[i]) = input[i]
                /\ r \in DOMAIN kg.adj /\ s \in DOMAIN kg.adj[r] /\ o \in kg.adj[r][s]
                /\ r \in DOMAIN kg.adj_inv /\ o \in DOMAIN kg.adj_inv[r]
                /\ s \in kg.adj_inv[r][o]
                /\ s \in DOMAIN kg.outgoing /\ <<r, o>> \in SeqToSet(kg.outgoing[s])
                /\ o \in DOMAIN kg.incoming /\ <<r, s>> \in SeqToSet(kg.incoming[o])
                /\ s \in kg.entities /\ o \in kg.entities /\ r \in kg.relations
      /\ \A r \in DOMAIN kg.adj :
            /\ DOMAIN kg.adj[r] # {}
            /\ \A s \in DOMAIN kg.adj[r] :
                  /\ kg.adj[r][s] # {}
                  /\ \A o \in kg.adj[r][s] : <<s, r, o>> \in InputSet
      /\ \A r \in DOMAIN kg.adj_inv :
            /\ DOMAIN kg.adj_inv[r] # {}
            /\ \A o \in DOMAIN kg.adj_inv[r] :
                  /\ kg.adj_inv[r][o] # {}
                  /\ \A s \in kg.adj_inv[r][o] : <<s, r, o>> \in InputSet
      /\ \A s \in DOMAIN kg.outgoing :
            /\ kg.outgoing[s] # <<>>
            /\ \A e \in SeqToSet(kg.outgoing[s]) : <<s, e[1], e[2]>> \in InputSet
      /\ \A o \in DOMAIN kg.incoming :
            /\ kg.incoming[o] # <<>>
            /\ \A e \in SeqToSet(kg.incoming[o]) : <<e[2], e[1], o>> \in InputSet
      /\ kg.entities = { t[1] : t \in InputSet } \cup { t[3] : t \in InputSet }
      /\ kg.relations = { t[2] : t \in InputSet }

\* A freshly constructed graph whose input repeats a triple and uses both
\* relations.
C2_Witness ==
    /\ calls = 0
    /\ Len(input) = 3
    /\ input[1] = input[2]
    /\ kg.relations = Relations

\* C3 (as claimed): whatever was called since construction, every index
\* structure of the graph has the key sets and contents construction gave it.
C3_GraphReadOnly == kg = KnowledgeGraph_init(input)

(***************************************************************************)
(* Claims about the sampler and the generalizer.                            *)
(***************************************************************************)
\* The node body step i of a bottom rule leads to.
StepFar(B, i) == FarNode(B.body[i], B.steps[i])

Returned == phase # "start" /\ sampled.kind = "BottomRule"

\* C4: a bottom rule returned by sample(n, ...) with n >= 1 has n - 1 body
\* triples and n - 1 steps, every step's far endpoint is in visited, and the
\* far endpoints are pairwise distinct and differ from both head endpoints,
\* except that the last one may be the head endpoint opposite to the start.
C4_WalkShape ==
    Returned =>
      LET B == sampled.rule
          len == Len(B.body)
      IN  /\ last.n >= 1
          /\ len = last.n - 1
          /\ Len(B.steps) = last.n - 1
          /\ \A i \in 1..len : StepFar(B, i) \in B.visited
          /\ \A i \in 1..len : \A j \in 1..len :
                i # j => StepFar(B, i) # StepFar(B, j)
          /\ \A i \in 1..len :
                StepFar(B, i) \in {B.head.subject, B.head.object}
                  => i = len /\ StepFar(B, i) = OppositeEnd(B)

\* A returned walk of two steps whose second step closes the cycle on a head
\* with two different endpoints.
C4_Witness ==
    /\ Returned
    /\ Len(sampled.rule.body) = 2
    /\ sampled.rule.head.subject # sampled.rule.head.object
    /\ StepFar(sampled.rule, 2) = OppositeEnd(sampled.rule)

\* C5 (as claimed): for every n >= 1, is_cyclical is true exactly when the
\* walk's final current_node is the head endpoint opposite to the start.
C5_CyclicalIffOppositeAnyN ==
    Returned =>
      (sampled.rule.is_cyclical <=> sampled.current_node = OppositeEnd(sampled.rule))

\* C5 (amended): for n >= 2, is_cyclical is true exactly when the final
\* current_node is the head endpoint opposite to the start; for n = 1 no
\* walk is made and is_cyclical is false.
C5_CyclicalIffOpposite ==
    Returned =>
      /\ last.n >= 2 =>
           (sampled.rule.is_cyclical
              <=> sampled.current_node = OppositeEnd(sampled.rule))
      /\ last.n = 1 => ~sampled.rule.is_cyclical

\* A cyclical rule of two body steps that started from the head's subject
\* and ended on the head's different object.
C5_Witness ==
    /\ Returned
    /\ last.n = 3
    /\ sampled.rule.is_cyclical
    /\ sampled.rule.start_from = "subject"
    /\ sampled.rule.head.subject # sampled.rule.head.object
    /\ sampled.current_node = sampled.rule.head.object

RuleKinds(rs) == [i \in 1..Len(rs) |-> <<rs[i].kind, rs[i].rule_type, rs[i].AC1_rule_variant>>]

VarLabels == {"Y", "X"} \cup { ALabel(i) : i \in 2..(2 * MaxN + 2) }
AuxLabels == VarLabels \ {"Y", "X"}

\* The (node, label) pairs of a generalized rule: every position of the
\* head and of the body, with the node the bottom rule has there.
Positions(rule) ==
    LET B == rule.bottom_rule
    IN  { <<B.head.subject, rule.generalized_head.subject>>,
          <<B.head.object, rule.generalized_head.object>> }
        \cup { <<B.body[i].subject, rule.generalized_body[i].subject>> : i \in 1..Len(B.body) }
        \cup { <<B.body[i].object, rule.generalized_body[i].object>> : i \in 1..Len(B.body) }

HeadPositions(rule) ==
    { <<rule.bottom_rule.head.subject, rule.generalized_head.subject>>,
      <<rule.bottom_rule.head.object, rule.generalized_head.object>> }

\* The C rule of a cyclical bottom rule holds variables only.
CRuleHasNoConstant ==
    sampled.rule.is_cyclical =>
      /\ rules[3].rule_type = "C"
      /\ \A p \in Positions(rules[3]) : p[2] \in VarLabels /\ p[2] \notin Entities

C8_ConfidenceBounds ==
    last.op = "calculate_confidence" =>
      LET R  == rules[last.i]
          h  == R.head_groundings_count
          b  == R.body_groundings_count
          c  == R.confidence
          pc == last.pc
      IN  /\ 0 <= h /\ h <= b /\ b <= last.sample_size
          /\ c.den > 0
          /\ b > 0 => c.num * (b * pc.den + pc.num) = (h * pc.den + pc.num) * c.den
          /\ b = 0 => c.num = 0
          /\ 0 <= c.num /\ c.num <= c.den
          /\ last.ret = c

C8_Witness ==
    /\ last.op = "calculate_confidence"
    /\ last.repeated
    /\ last.sample_size = 2
    /\ last.pc = Fraction(1, 2)
    /\ rules[last.i].body_groundings_count = 2
    /\ rules[last.i].head_groundings_count = 1

SpanEnds == lpc = "inner" /\ lpc' = "outer"

\* C9: the path length starts at 2 and changes only at the end of a span,
\* by exactly +1, exactly when the span's rule set S is non-empty and
\* |keys(S) \cap keys(G)| / |S| > sat, G being the global map before the
\* span's rules are merged into it.
C9_PathLength ==
    /\ (lpc = "outer" /\ iteration = 0) => n = 2
    /\ [][ /\ n' \in {n, n + 1}
           /\ n' = n + 1 <=>
                 /\ SpanEnds
                 /\ DOMAIN R_s # {}
                 /\ Cardinality(DOMAIN R_s \cap DOMAIN span_G) * params.sat.den
                       > params.sat.num * Cardinality(DOMAIN R_s) ]_vars

C9_Witness ==
    /\ lpc = "outer"
    /\ n = 3
    /\ DOMAIN R_s # {}
    /\ DOMAIN R_s \cap DOMAIN span_G # {}

\* C10: the global map changes only at the end of a span, after the
\* saturation was computed, to G overridden by S: a key of S maps to S's
\* rule, every other key keeps its rule, and no key is ever removed.
C10_MergeAtSpanEnd ==
    [][ /\ global_rules' # global_rules => SpanEnds
        /\ SpanEnds =>
              /\ DOMAIN global_rules' = DOMAIN global_rules \cup DOMAIN R_s
              /\ \A k \in DOMAIN R_s : global_rules'[k] = R_s[k]
              /\ \A k \in DOMAIN global_rules \ DOMAIN R_s :
                    global_rules'[k] = global_rules[k]
              /\ global_rules = span_G
        /\ DOMAIN global_rules \subseteq DOMAIN global_rules' ]_vars

C10_Witness ==
    /\ lpc = "outer"
    /\ iteration >= 2
    /\ \E k \in DOMAIN R_s \cap DOMAIN span_G :
          /\ R_s[k] # span_G[k]
          /\ global_rules[k] = R_s[k]
    /\ DOMAIN span_G \ DOMAIN R_s # {}

\* C11 (as claimed): two rules stored under the same canonical string, one in
\* the span map and one in the global map, have equal generalized_head and
\* equal generalized_body.
C11_SameKeySameRule ==
    \A k \in DOMAIN R_s \cap DOMAIN global_rules :
        /\ as_tuple(R_s[k].generalized_head) = as_tuple(global_rules[k].generalized_head)
        /\ BodyTuples(R_s[k]) = BodyTuples(global_rules[k])

Queried == last.op \in {"predict_tail", "predict_head"}

\* The head term the query entity is put in.
BoundTerm(rule) ==
    IF last.op = "predict_tail" THEN rule.generalized_head.subject
    ELSE rule.generalized_head.object

\* The variables of a rule's body: its terms that are no entity.
BodyVariables(rule) ==
    UNION { { rule.generalized_body[j].subject, rule.generalized_body[j].object }
            : j \in 1..Len(rule.generalized_body) } \ Entities

\* The assignments of the body's variables that extend the grounding and
\* make every body atom, constants standing for themselves, an input triple.
Satisfying(rule, grounding) ==
    LET val(sigma, term) == IF term \in Entities THEN term ELSE sigma[term]
    IN  { sigma \in [BodyVariables(rule) -> Entities] :
            /\ \A v \in BodyVariables(rule) \cap DOMAIN grounding : sigma[v] = grounding[v]
            /\ \A j \in 1..Len(rule.generalized_body) :
                  LET t == rule.generalized_body[j]
                  IN  <<val(sigma, t.subject), t.relation, val(sigma, t.object)>>
                          \in InputSet }

\* C12 (as claimed): for every rule a query applies and the grounding the
\* query gives its head, the completed groundings contain every assignment
\* of the body's variables that extends the grounding and satisfies the body.
C12_CompletionComplete ==
    Queried =>
      \A key \in DOMAIN last.completed :
        LET rule  == global_rules[key]
            start == HeadGrounding(BoundTerm(rule), last.entity)
        IN  start.ok =>
              \A sigma \in Satisfying(rule, start.grounding) :
                \E g \in last.completed[key] :
                  \A v \in DOMAIN sigma : v \in DOMAIN g /\ g[v] = sigma[v]

\* The head term a query asks for.
FreeTerm(rule) ==
    IF last.op = "predict_tail" THEN rule.generalized_head.object
    ELSE rule.generalized_head.subject

\* The completed groundings of the rule stored under key that predict c.
Backing(key, c) ==
    LET term == FreeTerm(global_rules[key])
    IN  { g \in last.completed[key] :
            IF term \in {"X", "Y"} THEN term \in DOMAIN g /\ g[term] = c
            ELSE term = c }

Producers(c) == { key \in DOMAIN last.completed : Backing(key, c) # {} }

Candidates == { c \in Entities : Producers(c) # {} }

\* How many of the confidences collected for c equal v: every prediction a
\* rule makes for c adds the rule's confidence to the list of c.
RECURSIVE Collected(_, _, _)
Collected(keys, c, v) ==
    IF keys = {} THEN 0
    ELSE LET key == CHOOSE x \in keys : TRUE
         IN  (IF FracEq(global_rules[key].confidence, v)
              THEN Cardinality(Backing(key, c)) ELSE 0)
             + Collected(keys \ {key}, c, v)

Levels == { global_rules[key].confidence : key \in DOMAIN last.completed }

\* The descending-sorted, zero-padded confidence tuple of x is strictly
\* greater than that of y, in lexicographic order.
TupleGreater(x, y) ==
    \E v \in Levels :
        /\ v.num > 0
        /\ Collected(DOMAIN last.completed, x, v) > Collected(DOMAIN last.completed, y, v)
        /\ \A w \in Levels :
              FracLess(v, w) =>
                Collected(DOMAIN last.completed, x, w) = Collected(DOMAIN last.completed, y, w)

Returned_entities == { last.ret[i][1] : i \in 1..Len(last.ret) }

\* C13: a query with k >= 1 returns at most k (entity, score) pairs with
\* pairwise distinct entities, every one a candidate, in non-increasing
\* lexicographic order of the entities' descending-sorted, zero-padded
\* tuples of collected confidences; each score is the greatest confidence
\* among the rules that produced the entity; and no omitted candidate has a
\* strictly greater tuple than a returned one.
C13_TopKOrdered ==
    Queried =>
      /\ Len(last.ret) <= last.k
      /\ \A i, j \in 1..Len(last.ret) : i # j => last.ret[i][1] # last.ret[j][1]
      /\ Returned_entities \subseteq Candidates
      /\ \A i, j \in 1..Len(last.ret) :
            i < j => ~TupleGreater(last.ret[j][1], last.ret[i][1])
      /\ \A i \in 1..Len(last.ret) :
            /\ \E key \in Producers(last.ret[i][1]) :
                  FracEq(global_rules[key].confidence, last.ret[i][2])
            /\ \A key \in Producers(last.ret[i][1]) :
                  ~FracLess(last.ret[i][2], global_rules[key].confidence)
      /\ \A c \in Candidates \ Returned_entities :
            \A i \in 1..Len(last.ret) : ~TupleGreater(c, last.ret[i][1])

\* A query with k = 1 returned an entity backed by a single confidence and
\* left out a candidate backed by several, all of them lower.
C13_Witness ==
    /\ Queried
    /\ last.k = 1
    /\ Len(last.ret) = 1
    /\ \E c \in Candidates \ Returned_entities :
          \E v, w \in Levels :
              /\ FracLess(w, v)
              /\ w.num > 0
              /\ Collected(DOMAIN last.completed, last.ret[1][1], v) = 1
              /\ Collected(DOMAIN last.completed, last.ret[1][1], w) = 0
              /\ Collected(DOMAIN last.completed, c, v) = 0
              /\ Collected(DOMAIN last.completed, c, w) >= 2

\* C14 (as claimed): the confidence list of a candidate holds one entry per
\* rule that produced it, so for every confidence value the candidate's tuple
\* holds it as often as there are rules of that confidence producing the
\* candidate, however many groundings of one rule reach the candidate.
C14_OneEntryPerRule ==
    Queried =>
      \A a \in last.aggregated :
          \A v \in Levels :
              v.num > 0 =>
                Cardinality({ i \in DOMAIN a.conf_tuple : FracEq(a.conf_tuple[i], v) })
                  = Cardinality({ key \in Producers(a.entity) :
                                    FracEq(global_rules[key].confidence, v) })

ValidDirections == {"both", "forward-only", "backward-only"}

\* sample(n, direction_allowed) was called with arguments it accepts.
SampledValid ==
    /\ phase = "sampled"
    /\ last.op = "sample"
    /\ last.n >= 1
    /\ last.direction_allowed \in ValidDirections

\* The walk res stopped at has no way on: from its current node, in the
\* direction picked, the graph has no edge, or every edge leads to a visited
\* node and is not the closing move of the last step.
DeadEnd(res, length) ==
    LET B     == res.rule
        edges == IF res.step_direction = "forward"
                 THEN { t \in InputSet : t[1] = res.current_node }
                 ELSE { t \in InputSet : t[3] = res.current_node }
        far(t) == IF res.step_direction = "forward" THEN t[3] ELSE t[1]
        survives(t) ==
            \/ far(t) \notin B.visited
            \/ Len(B.body) = length - 2 /\ far(t) = OppositeEnd(B)
    IN  /\ Len(B.body) < length - 1
        /\ \A t \in edges : ~survives(t)

\* Every step of the returned rule took an edge of the graph that survived
\* the filter, so no step met a dead end.
NoDeadEnd(B) ==
    \A i \in 1..Len(B.body) :
        /\ as_tuple(B.body[i]) \in InputSet
        /\ \/ \A j \in 1..(i - 1) : StepFar(B, j) # StepFar(B, i)
           \/ i = Len(B.body)

NoneOrRule ==
    /\ sampled.kind \in {"None", "BottomRule"}
    /\ sampled.kind = "None" => DeadEnd(sampled, last.n)
    /\ sampled.kind = "BottomRule" =>
          /\ Len(sampled.rule.body) = last.n - 1
          /\ NoDeadEnd(sampled.rule)

C15_SamplerNone == (SampledValid /\ input # <<>>) => NoneOrRule

\* A pass of the learner's inner loop whose sample returned None.
C15_LearnerNone ==
    (lpc = "inner" /\ lpc' = "inner" /\ sampled'.kind = "None")
        => (DeadEnd(sampled', n) /\ UNCHANGED <<R_s, global_rules, n>>)

C16_InvalidArgumentRaises ==
    ( /\ phase = "sampled"
      /\ last.op = "sample"
      /\ last.n < 1 \/ last.direction_allowed \notin ValidDirections )
        => sampled.kind = "ValueError"

Eq(cls, x, y) == IF cls = "Triple" THEN Triple_eq(x, y) ELSE TemporalTriple_eq(x, y)

Hash(cls, x) == IF cls = "Triple" THEN Triple_hash(x) ELSE TemporalTriple_hash(x)

\* C17 (as claimed): in both classes two triples with equal subject, relation
\* and object are equal and hash equally, whatever their reversed flags and
\* timestamps, and a triple flipped twice equals the original and has the
\* original reversed flag.
C17_IdentityIsSRO ==
    last.op = "Triple" =>
      /\ as_tuple(last.x) = as_tuple(last.other) =>
            /\ Eq(last.cls, last.x, last.other)
            /\ Hash(last.cls, last.x) = Hash(last.cls, last.other)
      /\ last.flips = 2 =>
            /\ Eq(last.cls, last.x, last.t)
            /\ last.x.reversed = last.t.reversed

\* The entities of a list of (entity, score) pairs.
EntitiesOf(q) == { q[i][1] : i \in 1..Len(q) }

\* The positions of the pairs of q in the list p they were taken from; the
\* entities of p are pairwise distinct.
PositionIn(p, pair) == CHOOSE i \in 1..Len(p) : p[i] = pair

\* The test triple the last pass of the loop scored.
TestTriple(call) == call.test_triples[call.total]

\* What one pass of the loop leaves, for the test triple (s, r, o*).
FilteredRanking(before, after) ==
    LET t        == TestTriple(after)
        o_star   == t[3]
        p        == after.predictions
        f        == after.filtered_candidates
        known(c) == <<t[1], t[2], c>> \in InputSet
        first    == Len(f) > 0 /\ f[1][1] = o_star
    IN  /\ \A i \in 1..Len(f) : f[i][1] # o_star => ~known(f[i][1])
        /\ o_star \in EntitiesOf(p) => o_star \in EntitiesOf(f)
        /\ \A i \in 1..Len(p) : ~known(p[i][1]) => p[i] \in SeqToSet(f)
        /\ SeqToSet(f) \subseteq SeqToSet(p)
        /\ \A i, j \in 1..Len(f) :
              i < j => PositionIn(p, f[i]) < PositionIn(p, f[j])
        /\ after.hits_at_1 = before.hits_at_1 + (IF first THEN 1 ELSE 0)
        /\ Len(after.reciprocal_ranks) = Len(before.reciprocal_ranks) + 1
        /\ \A i \in 1..Len(before.reciprocal_ranks) :
              after.reciprocal_ranks[i] = before.reciprocal_ranks[i]
        /\ LET rr == after.reciprocal_ranks[Len(after.reciprocal_ranks)]
           IN  IF o_star \in EntitiesOf(f)
               THEN \E i \in 1..Len(f) :
                       /\ f[i][1] = o_star
                       /\ rr.num = 1 /\ rr.den = i
               ELSE rr.num = 0

\* train {(a,r,b), (a,r,c)}, test (a,r,d), predictions [b, c, d], whatever the
\* scores: the filtered list is [d], Hits@1 = 1 and MRR = 1.
WorkedExample ==
    \A sb, sc, sd \in { Fraction(1, 2), Fraction(1, 1) } :
        (~FracLess(sb, sc) /\ ~FracLess(sc, sd)) =>
          LET ranked == RankTriple(<< <<"b", sb>>, <<"c", sc>>, <<"d", sd>> >>,
                                   "d", {"b", "c"}, 3)
              ret == Metrics(IF ranked.hit_1 THEN 1 ELSE 0,
                             IF ranked.hit_k THEN 1 ELSE 0,
                             <<ranked.reciprocal_rank>>, 1)
          IN  /\ ranked.filtered_candidates = << <<"d", sd>> >>
              /\ FracEq(ret.hits_at_1, Fraction(1, 1))
              /\ FracEq(ret.mrr, Fraction(1, 1))

C18_Pass ==
    /\ WorkedExample
    /\ ( /\ last.op = "evaluate_predictions"
         /\ last'.op = "evaluate_predictions"
         /\ last'.total = last.total + 1 )
          => FilteredRanking(last, last')

\* C18: in every pass of the loop of evaluate_predictions over a test triple
\* (s, r, o*), the filtered list holds no c # o* with (s, r, c) a training
\* fact, holds o* if the predictor returned it, holds every other prediction
\* that is not a training fact, and keeps the predictions in their order;
\* hits_at_1 grows by one iff o* is first in the filtered list, and the
\* reciprocal rank appended is 1 / position of o* in the filtered list, 0 if
\* it is absent.  On the worked example the filtered list is [d], Hits@1 = 1
\* and MRR = 1.
C18_FilteredRanking == [][C18_Pass]_vars

\* A pass in which filtering made the true object first: the predictor
\* ranked a known object above it.
C18_Witness ==
    /\ last.op = "evaluate_predictions"
    /\ last.total >= 1
    /\ Len(last.filtered_candidates) < Len(last.predictions)
    /\ Len(last.filtered_candidates) > 0
    /\ last.filtered_candidates[1][1] = TestTriple(last)[3]
    /\ last.predictions[1][1] # TestTriple(last)[3]
    /\ last.hits_at_1 >= 1

\* The learner was started on a graph with at least one triple.
Started == lpc = "outer" /\ iteration = 0 /\ input # <<>>

\* A span starts only if the loop condition could be read before
\* max_total_time had elapsed: the first read after the state's clock is at
\* clock + 1 at the earliest.
NoSpanAfterDeadline ==
    (lpc = "outer" /\ lpc' = "inner")
        => (clock + 1) - total_start < params.max_total_time

\* C19: with a clock that strictly advances from one read to the next, the
\* learner started on a graph with at least one triple returns, and it starts
\* no span once max_total_time has elapsed.
C19_Terminates == (Started ~> lpc = "done") /\ [][NoSpanAfterDeadline]_vars

\* The learner returned from a graph with triples without having stored a
\* rule, its last sample having returned None.
C19_Witness ==
    /\ lpc = "done"
    /\ input # <<>>
    /\ iteration >= 2
    /\ global_rules = EmptyDict
    /\ sampled.kind = "None"
    /\ "rule" \in DOMAIN sampled
    /\ clock - total_start >= params.max_total_time

\* A pass of the inner loop was made in the running span: the loop condition
\* was read at time clock and sample was called right after it.
SampleStarted == lpc = "inner" /\ clock > span_start

\* C20 (as claimed): a call of sample is started only while the span has
\* lasted less than ts and the total elapsed time is less than
\* max_total_time.
C20_BothDeadlines ==
    SampleStarted =>
      /\ clock - span_start < params.ts
      /\ clock - total_start < params.max_total_time

\* The mode the iteration chose and what a cyclic span holds.
SampleModeOfSpan ==
    lpc = "inner" =>
      /\ sample_mode \in {"cyclic", "all"}
      /\ sample_mode = "cyclic" <=>
            /\ n = 3
            /\ params.alternate_cyclic_sampling
            /\ iteration % 2 = 1
      /\ sample_mode = "cyclic" =>
            \A key \in DOMAIN R_s : R_s[key].bottom_rule.is_cyclical

\* A pass of a cyclic span whose sample is an acyclic bottom rule.
AcyclicSampleSkipped ==
    ( /\ lpc = "inner" /\ lpc' = "inner"
      /\ sample_mode = "cyclic"
      /\ sampled'.kind = "BottomRule"
      /\ ~sampled'.rule.is_cyclical )
        => R_s' = R_s

C22_PessimisticPenalises ==
    (last.op = "calculate_confidence" /\ last.pc.num > 0) =>
      LET R  == rules[last.i]
          h  == R.head_groundings_count
          b  == R.body_groundings_count
          c  == R.confidence
          pc == last.pc
      IN  b > 0 =>
            /\ c.num * b <= h * c.den
            /\ \A b2 \in 1..MaxSampleSize, h2 \in 0..MaxSampleSize :
                  (h2 <= b2 /\ h2 * b = h * b2 /\ h < b /\ b2 < b)
                     => ~FracLess(c, SmoothedConfidence(h2, b2, pc))

\* The distinct nodes that come before position i of a node list.
NodesBefore(nodes, i) == { nodes[j] : j \in 1..(i - 1) }

\* The label the position of a node's first occurrence stands for: Y for
\* the first distinct node, X for the second, A2, A3, ... for the later ones.
LabelOfRank(rank) ==
    IF rank = 1 THEN "Y" ELSE IF rank = 2 THEN "X" ELSE "A" \o ToString(rank - 1)

FirstOccurrence(nodes, x) ==
    CHOOSE i \in 1..Len(nodes) : nodes[i] = x /\ x \notin NodesBefore(nodes, i)

\* C23: before constants are re-introduced, node_mappings maps exactly the
\* distinct nodes of flattened_nodes, the k-th distinct node in order of
\* first occurrence to Y (k = 1), X (k = 2), A2, A3, ... (k = 3, 4, ...),
\* and no two distinct nodes share a label; the rules built from it differ
\* from it only where a node was mapped back to itself.
C23_LabelsInjective ==
    phase = "generalized" =>
      LET flattened_nodes == get_flattened_nodes(sampled.rule)
          node_mappings   == VariableMappings(flattened_nodes)
      IN  /\ DOMAIN node_mappings = SeqToSet(flattened_nodes)
          /\ \A x \in DOMAIN node_mappings :
                node_mappings[x] =
                  LabelOfRank(Cardinality(NodesBefore(flattened_nodes,
                                  FirstOccurrence(flattened_nodes, x))) + 1)
          /\ \A x, y \in DOMAIN node_mappings :
                node_mappings[x] = node_mappings[y] => x = y
          /\ \A i \in 1..Len(rules) :
                /\ DOMAIN rules[i].node_mappings = DOMAIN node_mappings
                /\ \A x \in DOMAIN node_mappings :
                      rules[i].node_mappings[x] \in {node_mappings[x], x}

\* A walk over four distinct nodes, one of them met twice in a row in the
\* flattened list, was generalized: the labels Y, X, A2 and A3 are all used.
C23_Witness ==
    /\ phase = "generalized"
    /\ Len(sampled.rule.body) = 2
    /\ Cardinality(SeqToSet(get_flattened_nodes(sampled.rule))) = 4
    /\ \E x \in SeqToSet(get_flattened_nodes(sampled.rule)) :
          VariableMappings(get_flattened_nodes(sampled.rule))[x] = "A3"

\* C24: the chained view of a returned bottom rule with a non-empty body is
\* a connected chain: the chained head's second position is the node the
\* walk started from and the first position of chained body atom 1, each
\* chained body atom's second position is the next atom's first position,
\* and for a cyclical rule the last atom's second position is the chained
\* head's first position.
C24_ChainConnected ==
    (Returned /\ Len(sampled.rule.body) >= 1) =>
      LET B       == sampled.rule
          chained == get_chained(B)
          len     == Len(chained.body)
      IN  /\ len = Len(B.body)
          /\ chained.head[3] = (IF B.start_from = "subject"
                                THEN B.head.subject ELSE B.head.object)
          /\ chained.head[3] = chained.body[1][1]
          /\ \A i \in 1..(len - 1) : chained.body[i][3] = chained.body[i + 1][1]
          /\ B.is_cyclical => chained.body[len][3] = chained.head[1]

\* A cyclical rule of two body steps, the first of them backward, on a head
\* with two different endpoints.
C24_Witness ==
    /\ Returned
    /\ Len(sampled.rule.body) = 2
    /\ sampled.rule.is_cyclical
    /\ sampled.rule.steps[1] = "backward"
    /\ sampled.rule.head.subject # sampled.rule.head.object

\* The graph {(a, r, b), (b, r, c), (c, r, a)}, its triples in any order.
TriangleGraph ==
    SeqToSet(input) = { <<"a", "r", "b">>, <<"b", "r", "c">>, <<"c", "r", "a">> }

\* The rules of a sample(3) on the triangle whose walk started from a and
\* took forward steps only.
ForwardFromA ==
    /\ TriangleGraph
    /\ phase = "generalized"
    /\ Len(sampled.rule.body) = 3 - 1
    /\ "a" = (IF sampled.rule.start_from = "subject"
              THEN sampled.rule.head.subject ELSE sampled.rule.head.object)
    /\ \A i \in 1..Len(sampled.rule.steps) : sampled.rule.steps[i] = "forward"

\* C25 (as claimed): the C generalization of such a walk has three body
\* atoms and the canonical string of r(Y,X) <- r(Y,A2), r(A2,A3), r(A3,X),
\* written with the separators __str__ writes.
C25_ThreeAtomCycle ==
    ForwardFromA =>
      /\ sampled.rule.is_cyclical
      /\ Len(rules) = 3
      /\ rule_str(rules[3]) = "r(Y, X) <- r(Y, A2), r(A2, A3), r(A3, X)"

\* C25 (amended): such a walk is a --r--> b --r--> c under the head
\* (c, r, a); it is cyclical, has n - 1 = 2 body atoms, and its C
\* generalization has the canonical string r(Y, X) <- r(X, A2), r(A2, Y).
C25_TriangleCycle ==
    ForwardFromA =>
      /\ sampled.rule.is_cyclical
      /\ sampled.rule.head = Triple("c", "r", "a", FALSE)
      /\ Len(sampled.rule.body) = 2
      /\ Len(rules) = 3
      /\ rules[3].rule_type = "C"
      /\ rule_str(rules[3]) = "r(Y, X) <- r(X, A2), r(A2, Y)"

C25_Witness == ForwardFromA /\ sampled.rule.is_cyclical /\ Len(rules) = 3

\* The groundings _sample_body_grounding can return for a rule on the graph.
BodyGroundings(rule) ==
    { sg.grounding : sg \in { x \in _sample_body_grounding(rule, KgIndex(kg)) : x.found } }

\* Every body atom of the rule, its terms replaced by their values in the
\* grounding, is a triple of the graph.
SatisfiesBody(rule, grounding) ==
    \A j \in 1..Len(rule.generalized_body) :
       LET t == rule.generalized_body[j]
       IN  /\ t.subject \in DOMAIN grounding
           /\ t.object \in DOMAIN grounding
           /\ <<grounding[t.subject], t.relation, grounding[t.object]>> \in InputSet

\* C26 (as claimed): every grounding _sample_body_grounding returns for a
\* rule produced by generalize satisfies the rule's whole body on the
\* graph, atoms with one variable in both positions included.
C26_GroundingSatisfiesBody ==
    phase = "generalized" =>
      \A i \in 1..Len(rules) :
         \A grounding \in BodyGroundings(rules[i]) : SatisfiesBody(rules[i], grounding)

\* The nodes of a rule's bottom rule that the rule keeps as constants: the
\* rule maps them to themselves where the variable assignment gave a label.
ConstantNodes(rule) ==
    LET labels == VariableMappings(get_flattened_nodes(rule.bottom_rule))
    IN  { x \in DOMAIN rule.node_mappings :
            rule.node_mappings[x] = x /\ labels[x] # x }

\* The terms of a rule's body.
BodyTerms(rule) ==
    UNION { { rule.generalized_body[j].subject, rule.generalized_body[j].object }
            : j \in 1..Len(rule.generalized_body) }

\* C27 (as claimed): a constant of a rule is never among the variables
\* _get_variable_bindings returns, and every grounding
\* _sample_body_grounding returns binds each constant of the body to
\* itself, whatever the constant's identifier.
C27_ConstantsStayConstant ==
    phase = "generalized" =>
      \A i \in 1..Len(rules) :
         \A x \in ConstantNodes(rules[i]) :
            /\ x \notin _get_variable_bindings(rules[i])
            /\ x \in BodyTerms(rules[i]) =>
                  \A grounding \in BodyGroundings(rules[i]) :
                     x \in DOMAIN grounding /\ grounding[x] = x

\* The value of a body term under a completed grounding, a constant
\* standing for itself.
TermValue(grounding, term) ==
    IF term \in Entities THEN term ELSE DictGet(grounding, term, "unbound")

\* C28 (as claimed): in every completed grounding of a rule a query applies,
\* each body atom, constants standing for themselves, is a triple of the
\* training graph, and a constant of the body is never bound to another
\* entity.
C28_ConstantsNotRebound ==
    Queried =>
      \A key \in DOMAIN last.completed :
        \A grounding \in last.completed[key] :
          LET rule == global_rules[key]
          IN  /\ \A j \in 1..Len(rule.generalized_body) :
                    LET t == rule.generalized_body[j]
                    IN  <<TermValue(grounding, t.subject), t.relation,
                          TermValue(grounding, t.object)>> \in InputSet
              /\ \A term \in BodyTerms(rule) \cap Entities :
                    term \in DOMAIN grounding => grounding[term] = term

\* A rule as the default quality predicate accepts it, under its own key.
StoredWell(key, rule) ==
    /\ quality_function(rule)
    /\ rule.head_groundings_count >= 2
    /\ rule.body_groundings_count >= rule.head_groundings_count
    /\ rule.confidence.num > 0 /\ rule.confidence.den > 0
    /\ rule.confidence = SmoothedConfidence(rule.head_groundings_count,
                                            rule.body_groundings_count, params.pc)
    /\ key = rule_str(rule)

\* Every rule of the span map and of the global map was accepted.
StoredQuality ==
    lpc # "idle" =>
      /\ \A key \in DOMAIN R_s : StoredWell(key, R_s[key])
      /\ \A key \in DOMAIN global_rules : StoredWell(key, global_rules[key])

\* A key of the global map keeps its rule, counters included, unless the
\* span map's rule of that key replaces it at the end of a span.
StoredUnchanged ==
    \A key \in DOMAIN global_rules :
       /\ key \in DOMAIN global_rules'
       /\ global_rules'[key] # global_rules[key] =>
             SpanEnds /\ key \in DOMAIN R_s /\ global_rules'[key] = R_s[key]

\* C29: at every point of the learner's run and in the returned map, every
\* stored rule passed the default quality predicate when it was inserted
\* and has not changed since: head_groundings_count >= 2,
\* body_groundings_count >= head_groundings_count, confidence > 0, and its
\* key is its own canonical string.
C29_StoredRulesPassQuality == [](StoredQuality) /\ [][StoredUnchanged]_vars

\* The learner returned, after two spans or more, a map that holds a rule
\* whose two body groundings both confirmed the head.
C29_Witness ==
    /\ lpc = "done"
    /\ iteration >= 2
    /\ \E key \in DOMAIN global_rules :
          /\ global_rules[key].head_groundings_count = 2
          /\ global_rules[key].body_groundings_count = 2

\* The timestamps the graph's tuples give the edge (s, r, o).
GraphTimestamps(edge) ==
    { tup[4] : tup \in { x \in InputSet :
                           Len(x) = 4 /\ <<x[1], x[2], x[3]>> = as_tuple(edge) } }

\* The body edges from i on can be given graph timestamps that never fall
\* below the current time and never exceed it by more than the window, each
\* chosen timestamp becoming the current time; an edge the graph gives no
\* timestamp leaves the current time alone.
RECURSIVE InTimeOrder(_, _, _, _)
InTimeOrder(body, i, current_time, window) ==
    IF i > Len(body) THEN TRUE
    ELSE IF GraphTimestamps(body[i]) = {} THEN InTimeOrder(body, i + 1, current_time, window)
    ELSE \E t \in GraphTimestamps(body[i]) :
            /\ t >= current_time
            /\ t - current_time <= window
            /\ InTimeOrder(body, i + 1, t, window)

\* C30 (as claimed): a bottom rule returned by sample with a temporal_window
\* has a head with a timestamp, and the graph timestamps of its body edges
\* are non-decreasing from the head's on, each at most temporal_window
\* after the one before.
C30_TemporalOrder ==
    (phase = "sampled" /\ sampled.kind = "BottomRule" /\ last.temporal_window # <<>>) =>
      /\ sampled.rule.head.timestamp # <<>>
      /\ InTimeOrder(sampled.rule.body, 1, sampled.rule.head.timestamp[1],
                     last.temporal_window[1])

====
